---- MODULE Spec2Model ----
(***************************************************************************)
(* Student LMS backend: the authentication component (backend/auth.py,     *)
(* backend/routes/auth.py), the user routes (backend/routes/users.py) and  *)
(* the validation layer (backend/schemas.py), over the remote table store. *)
(*                                                                         *)
(* Strings are sequences of one-character strings.  The clock counts       *)
(* minutes.  A row id stands for the UUID the store assigns on insert.     *)
(***************************************************************************)
EXTENDS Integers, Sequences, FiniteSets, TLC

VARIABLES
    users,      \* table "users": sequence of rows in insertion order
    issued,     \* every token minted so far by create_access_token
    now,        \* datetime.utcnow(), in minutes
    resp,       \* the response (or dependency outcome) of the last call
    tables,     \* the content tables, by name: sequences of rows
    calls       \* the handler invocations in flight, between two store calls

vars == <<users, issued, now, resp, tables, calls>>

----------------------------------------------------------------------------
(* Bounds of the model *)

MaxUsers == 2
MaxTokens == 1
MaxTime == 2880

(* Program constants *)

ACCESS_TOKEN_EXPIRE_MINUTES == 60 * 24

SECRET_KEY == "server-key"

ALGORITHM == "HS256"

----------------------------------------------------------------------------
(* Characters and Python's str helpers *)

UpperSeq == <<"A","B","C","D","E","F","G","H","I","J","K","L","M",
              "N","O","P","Q","R","S","T","U","V","W","X","Y","Z">>

LowerSeq == <<"a","b","c","d","e","f","g","h","i","j","k","l","m",
              "n","o","p","q","r","s","t","u","v","w","x","y","z">>

UpperChars == {UpperSeq[i] : i \in 1..26}
LowerChars == {LowerSeq[i] : i \in 1..26}
Letters == UpperChars \cup LowerChars
Digits == {"0","1","2","3","4","5","6","7","8","9"}
Whitespace == {" ", "\t", "\n"}
NUL == "\\x00"

\* Two characters outside ASCII: LATIN CAPITAL LETTER E WITH ACUTE, an
\* upper-case letter that [A-Z] does not match, and ARABIC-INDIC DIGIT THREE,
\* a decimal digit that \d matches
CapitalEAcute == "\\u00c9"
ArabicIndicThree == "\\u0663"

\* What \d matches in a str pattern: every Unicode decimal digit
RegexDigits == Digits \cup {ArabicIndicThree}

Min(a, b) == IF a < b THEN a ELSE b

AllIn(s, set) == \A i \in 1..Len(s) : s[i] \in set

AnyIn(s, set) == \E i \in 1..Len(s) : s[i] \in set

\* str.lower() on one character
LowerChar(c) ==
    IF c \in UpperChars
    THEN LowerSeq[CHOOSE i \in 1..26 : UpperSeq[i] = c]
    ELSE c

\* str.lower()
lower(s) == [i \in 1..Len(s) |-> LowerChar(s[i])]

RECURSIVE lstrip(_)
lstrip(s) ==
    IF s # <<>> /\ Head(s) \in Whitespace THEN lstrip(Tail(s)) ELSE s

RECURSIVE rstrip(_)
rstrip(s) ==
    IF s # <<>> /\ s[Len(s)] \in Whitespace
    THEN rstrip(SubSeq(s, 1, Len(s) - 1))
    ELSE s

\* str.strip()
strip(s) == rstrip(lstrip(s))

\* value[:n]
Truncate(s, n) == SubSeq(s, 1, Min(n, Len(s)))

\* html.escape(c, quote=True) on one character
EscapeChar(c) ==
    CASE c = "&"  -> <<"&","a","m","p",";">>
      [] c = "<"  -> <<"&","l","t",";">>
      [] c = ">"  -> <<"&","g","t",";">>
      [] c = "\"" -> <<"&","q","u","o","t",";">>
      [] c = "'"  -> <<"&","#","x","2","7",";">>
      [] OTHER    -> <<c>>

RECURSIVE html_escape(_)
html_escape(s) ==
    IF s = <<>> THEN <<>> ELSE EscapeChar(Head(s)) \o html_escape(Tail(s))

IsNotNul(c) == c # NUL

\* value.replace('\x00', '')
RemoveNul(s) == SelectSeq(s, IsNotNul)

\* schemas.sanitize_string
sanitize_string(value, max_length) ==
    IF value = <<>>
    THEN <<>>
    ELSE RemoveNul(html_escape(Truncate(strip(value), max_length)))

----------------------------------------------------------------------------
(* Field validators of the request schemas.  Each returns                  *)
(* [ok |-> TRUE, v |-> value] or [ok |-> FALSE, v |-> <<>>] (ValueError).  *)

Valid(v) == [ok |-> TRUE, v |-> v]
Invalid == [ok |-> FALSE, v |-> <<>>]

\* raise ValueError(msg)
ValueError(msg) == [ok |-> FALSE, v |-> <<>>, msg |-> msg]

EmailLocalChars == Letters \cup Digits \cup {".", "_", "%", "+", "-"}
EmailDomainChars == Letters \cup Digits \cup {".", "-"}

\* re: ^[a-zA-Z0-9._%+-]+@[a-zA-Z0-9.-]+\.[a-zA-Z]{2,}$
EmailRegexMatch(s) ==
    \E at \in 2..Len(s) : \E dot \in (at + 2)..(Len(s) - 2) :
        /\ s[at] = "@"
        /\ s[dot] = "."
        /\ AllIn(SubSeq(s, 1, at - 1), EmailLocalChars)
        /\ AllIn(SubSeq(s, at + 1, dot - 1), EmailDomainChars)
        /\ AllIn(SubSeq(s, dot + 1, Len(s)), Letters)

RegisterRequest_validate_email(v) ==
    LET e == lower(strip(v)) IN
    IF ~EmailRegexMatch(e) THEN Invalid
    ELSE IF Len(e) > 254 THEN Invalid
    ELSE Valid(e)

\* `>=` written for `>` in the upper length check
RegisterRequest_validate_password_offbyone(v) ==
    IF Len(v) < 8 THEN ValueError("Password must be at least 8 characters")
    ELSE IF Len(v) >= 128 THEN ValueError("Password too long")
    ELSE IF ~AnyIn(v, UpperChars)
    THEN ValueError("Password must contain at least one uppercase letter")
    ELSE IF ~AnyIn(v, LowerChars)
    THEN ValueError("Password must contain at least one lowercase letter")
    ELSE IF ~AnyIn(v, RegexDigits)
    THEN ValueError("Password must contain at least one number")
    ELSE Valid(v)

RegisterRequest_validate_password(v) ==
    IF Len(v) < 8 THEN ValueError("Password must be at least 8 characters")
    ELSE IF Len(v) > 128 THEN ValueError("Password too long")
    ELSE IF ~AnyIn(v, UpperChars)
    THEN ValueError("Password must contain at least one uppercase letter")
    ELSE IF ~AnyIn(v, LowerChars)
    THEN ValueError("Password must contain at least one lowercase letter")
    ELSE IF ~AnyIn(v, RegexDigits)
    THEN ValueError("Password must contain at least one number")
    ELSE Valid(v)

NameChars == Letters \cup Whitespace \cup {"-", "'"}

RegisterRequest_validate_name(v) ==
    LET n == strip(v) IN
    IF Len(n) < 2 THEN Invalid
    ELSE IF Len(n) > 100 THEN Invalid
    ELSE IF ~AllIn(n, NameChars) THEN Invalid
    ELSE Valid(n)

\* admin added to the allowed roles
RegisterRequest_validate_role_admin(v) ==
    IF v \notin {"student", "tutor", "admin"} THEN Invalid ELSE Valid(v)

RegisterRequest_validate_role(v) ==
    IF v \notin {"student", "tutor"} THEN Invalid ELSE Valid(v)

\* the e-mail stripped but not lower-cased
LoginRequest_validate_email_nolower(v) == strip(v)

LoginRequest_validate_email(v) == lower(strip(v))

PasswordChangeRequest_validate_new_password(v) ==
    IF Len(v) < 8 THEN ValueError("Password must be at least 8 characters")
    ELSE IF Len(v) > 128 THEN ValueError("Password too long")
    ELSE IF ~AnyIn(v, UpperChars)
    THEN ValueError("Password must contain at least one uppercase letter")
    ELSE IF ~AnyIn(v, LowerChars)
    THEN ValueError("Password must contain at least one lowercase letter")
    ELSE IF ~AnyIn(v, RegexDigits)
    THEN ValueError("Password must contain at least one number")
    ELSE Valid(v)

----------------------------------------------------------------------------
(* Optional values: None is the empty sequence, a present value x is <<x>> *)

None == <<>>
Some(x) == <<x>>

(* The table store: select().eq(), insert, update().eq() *)

\* table.select("*").eq("id", v): the rows whose id is v
\* the id filter dropped: the first row of the table, whatever its id
SelectById_first(tbl, v) == IF tbl = <<>> THEN <<>> ELSE <<tbl[1]>>

SelectById(tbl, v) == SelectSeq(tbl, LAMBDA r : r.id = v)

\* table.select("*").eq("email", v)
SelectByEmail(tbl, v) == SelectSeq(tbl, LAMBDA r : r.email = v)

\* table.select("*").eq("role", v)
SelectByRole(tbl, v) == SelectSeq(tbl, LAMBDA r : r.role = v)

\* The id the store gives the next inserted row
NewId(tbl) == Len(tbl) + 1

\* The column password_hash of a row inserted without one
NullHash == [alg |-> "null", salt |-> 0, secret |-> <<>>]

\* A JSON object without one key: dict.pop(key, None)
Pop(row, key) == [k \in DOMAIN row \ {key} |-> row[k]]

----------------------------------------------------------------------------
(* Password utilities *)

\* bcrypt reads the first 72 bytes of a password and ignores the rest
BCRYPT_MAX_BYTES == 72

\* pwd_context.hash: a salted one-way bcrypt hash; the salt is drawn per call
hash_password(password, salt) ==
    [alg |-> "bcrypt", salt |-> salt,
     secret |-> Truncate(password, BCRYPT_MAX_BYTES)]

\* pwd_context.verify: FALSE for a missing hash, else recompute and compare
verify_password(plain_password, hashed_password) ==
    /\ hashed_password # NullHash
    /\ hashed_password = hash_password(plain_password, hashed_password.salt)

----------------------------------------------------------------------------
(* JWT utilities *)

\* The signature HMAC(key, header.payload): it binds the key and the payload
Sign(claims, key, alg) == [key |-> key, alg |-> alg, over |-> claims]

\* jose.jwt.encode
jwt_encode(claims, key, algorithm) ==
    [kind |-> "jwt", payload |-> claims, sig |-> Sign(claims, key, algorithm)]

\* jwt.decode with options={"verify_exp": False}
jwt_decode_noexp(token, key, algorithm, t) ==
    IF token.kind # "jwt" THEN [ok |-> FALSE]
    ELSE IF token.sig # Sign(token.payload, key, algorithm) THEN [ok |-> FALSE]
    ELSE [ok |-> TRUE, payload |-> token.payload]

\* jose.jwt.decode: JWTError on a malformed token, a signature that does not
\* verify, or an exp claim in the past
jwt_decode(token, key, algorithm, t) ==
    IF token.kind # "jwt" THEN [ok |-> FALSE]
    ELSE IF token.sig # Sign(token.payload, key, algorithm) THEN [ok |-> FALSE]
    ELSE IF "exp" \in DOMAIN token.payload /\ token.payload["exp"] < t
         THEN [ok |-> FALSE]
    ELSE [ok |-> TRUE, payload |-> token.payload]

\* fastapi.HTTPException(status_code, detail, headers)
HTTPException(status_code, detail, www) ==
    [ok |-> FALSE, status |-> status_code, detail |-> detail, www |-> www]

\* `if expires_delta:` -- None and timedelta(0) are both falsy
Truthy(expires_delta) == expires_delta # None /\ expires_delta[1] # 0

\* to_encode built from the subject alone instead of data.copy()
create_access_token_subonly(data, expires_delta, t) ==
    LET expire == IF Truthy(expires_delta)
                  THEN t + expires_delta[1]
                  ELSE t + ACCESS_TOKEN_EXPIRE_MINUTES
        to_encode == [k \in (DOMAIN data \cap {"sub"}) \cup {"exp", "iat"} |->
                        IF k = "exp" THEN expire
                        ELSE IF k = "iat" THEN t
                        ELSE data[k]]
    IN jwt_encode(to_encode, SECRET_KEY, ALGORITHM)

create_access_token(data, expires_delta, t) ==
    LET expire == IF Truthy(expires_delta)
                  THEN t + expires_delta[1]
                  ELSE t + ACCESS_TOKEN_EXPIRE_MINUTES
        to_encode == [k \in DOMAIN data \cup {"exp", "iat"} |->
                        IF k = "exp" THEN expire
                        ELSE IF k = "iat" THEN t
                        ELSE data[k]]
    IN jwt_encode(to_encode, SECRET_KEY, ALGORITHM)

\* the message of the caught JWTError passed on as the detail
decode_token_leaky(token, t) ==
    LET r == jwt_decode(token, SECRET_KEY, ALGORITHM, t) IN
    IF r.ok
    THEN [ok |-> TRUE, payload |-> r.payload]
    ELSE IF token.kind # "jwt"
    THEN HTTPException(401, "Not enough segments", TRUE)
    ELSE IF token.sig # Sign(token.payload, SECRET_KEY, ALGORITHM)
    THEN HTTPException(401, "Signature verification failed.", TRUE)
    ELSE HTTPException(401, "Signature has expired.", TRUE)

decode_token(token, t) ==
    LET r == jwt_decode(token, SECRET_KEY, ALGORITHM, t) IN
    IF r.ok
    THEN [ok |-> TRUE, payload |-> r.payload]
    ELSE HTTPException(401, "Invalid or expired token", TRUE)

----------------------------------------------------------------------------
(* Authentication dependencies *)

\* The id that is falsy in `if not user_id` (the empty string)
EmptyId == 0

\* the payload read with jwt.get_unverified_claims instead of decode_token
get_current_user_unverified(token, t, tbl) ==
    IF "sub" \notin DOMAIN token.payload \/ token.payload["sub"] = EmptyId
    THEN HTTPException(401, "Invalid token payload", FALSE)
    ELSE LET result == SelectById(tbl, token.payload["sub"]) IN
         IF result = <<>>
         THEN HTTPException(401, "User not found", FALSE)
         ELSE [ok |-> TRUE, user |-> result[1]]

get_current_user(token, t, tbl) ==
    LET d == decode_token(token, t) IN
    IF ~d.ok THEN d
    ELSE IF "sub" \notin DOMAIN d.payload \/ d.payload["sub"] = EmptyId
    THEN HTTPException(401, "Invalid token payload", FALSE)
    ELSE LET result == SelectById(tbl, d.payload["sub"]) IN
         IF result = <<>>
         THEN HTTPException(401, "User not found", FALSE)
         ELSE [ok |-> TRUE, user |-> result[1]]

\* get_current_user awaited outside the try block
get_current_user_optional_raising(credentials, t, tbl) ==
    IF credentials = None
    THEN [ok |-> TRUE, user |-> None]
    ELSE LET r == get_current_user(credentials[1], t, tbl) IN
         IF r.ok
         THEN [ok |-> TRUE, user |-> Some(r.user)]
         ELSE r

\* credentials is None or Some(token); the result is None or Some(user)
get_current_user_optional(credentials, t, tbl) ==
    IF credentials = None
    THEN [ok |-> TRUE, user |-> None]
    ELSE LET r == get_current_user(credentials[1], t, tbl) IN
         IF r.ok
         THEN [ok |-> TRUE, user |-> Some(r.user)]
         ELSE [ok |-> TRUE, user |-> None]

\* `in` written for `not in`
require_role_inverted(allowed_roles, token, t, tbl) ==
    LET current_user == get_current_user(token, t, tbl) IN
    IF ~current_user.ok THEN current_user
    ELSE IF current_user.user.role \in allowed_roles
    THEN HTTPException(403, "Insufficient permissions", FALSE)
    ELSE current_user

\* require_role(allowed_roles) -> role_checker
require_role(allowed_roles, token, t, tbl) ==
    LET current_user == get_current_user(token, t, tbl) IN
    IF ~current_user.ok THEN current_user
    ELSE IF current_user.user.role \notin allowed_roles
    THEN HTTPException(403, "Insufficient permissions", FALSE)
    ELSE current_user

----------------------------------------------------------------------------
(* schemas.py: validate_url and the UserCreate schema *)

StartsWith(s, p) == Len(s) >= Len(p) /\ SubSeq(s, 1, Len(p)) = p

\* `sub in s`
Contains(s, sub) ==
    \E i \in 1..(Len(s) - Len(sub) + 1) : SubSeq(s, i, i + Len(sub) - 1) = sub

HttpPrefix == <<"h","t","t","p",":","/","/">>
HttpsPrefix == <<"h","t","t","p","s",":","/","/">>

\* dangerous = ['javascript:', 'data:', 'vbscript:', '<script', 'onclick',
\*              'onerror', 'onload']
Dangerous == {
    <<"j","a","v","a","s","c","r","i","p","t",":">>,
    <<"d","a","t","a",":">>,
    <<"v","b","s","c","r","i","p","t",":">>,
    <<"<","s","c","r","i","p","t">>,
    <<"o","n","c","l","i","c","k">>,
    <<"o","n","e","r","r","o","r">>,
    <<"o","n","l","o","a","d">> }

\* schemas.validate_url
validate_url(url) ==
    IF url = <<>> THEN Valid(<<>>)
    ELSE LET u == strip(url) IN
         IF ~(StartsWith(u, HttpPrefix) \/ StartsWith(u, HttpsPrefix))
         THEN Invalid
         ELSE IF \E d \in Dangerous : Contains(lower(u), d) THEN Invalid
         ELSE Valid(u)

UserBase_validate_email(v) ==
    LET e == lower(strip(v)) IN
    IF ~EmailRegexMatch(e) \/ Len(e) > 254 THEN Invalid ELSE Valid(e)

UserBase_validate_name(v) ==
    LET n == sanitize_string(v, 100) IN
    IF Len(n) < 2 THEN Invalid ELSE Valid(n)

UserBase_validate_role(v) ==
    IF v \notin {"student", "tutor", "admin"} THEN Invalid ELSE Valid(v)

\* v is None or Some(url); `if v:` is false for None and for the empty string
UserBase_validate_avatar(v) ==
    IF v # None /\ v[1] # <<>>
    THEN LET r == validate_url(v[1]) IN
         IF r.ok THEN Valid(Some(r.v)) ELSE Invalid
    ELSE Valid(v)

----------------------------------------------------------------------------
(* UUIDs: schemas.validate_uuid and validators.validate_uuid *)

HexChars == Digits \cup {"a","b","c","d","e","f","A","B","C","D","E","F"}

\* [0-9a-f]{8}-[0-9a-f]{4}-[0-9a-f]{4}-[0-9a-f]{4}-[0-9a-f]{12}, IGNORECASE
UuidBody(s) ==
    /\ Len(s) = 36
    /\ \A i \in 1..36 :
          IF i \in {9, 14, 19, 24} THEN s[i] = "-" ELSE s[i] \in HexChars

\* uuid_regex.match: ^...$ where $ also matches before one final newline
uuid_regex_match(s) ==
    \/ UuidBody(s)
    \/ /\ Len(s) = 37
       /\ s[37] = "\n"
       /\ UuidBody(SubSeq(s, 1, 36))

\* schemas.validate_uuid
validate_uuid(uuid_str) ==
    IF uuid_str = <<>> THEN ValueError("UUID is required")
    ELSE IF ~uuid_regex_match(uuid_str) THEN ValueError("Invalid UUID format")
    ELSE Valid(lower(uuid_str))

\* validators.validate_uuid: None for an invalid string
validators_validate_uuid(uuid_string) ==
    IF uuid_string = <<>> THEN Invalid
    ELSE IF uuid_regex_match(uuid_string) THEN Valid(lower(uuid_string))
    ELSE Invalid

----------------------------------------------------------------------------
(* validators.py: sanitize_string, sanitize_text, sanitize_tags *)

\* value.replace('  ', ' '): one pass over non-overlapping pairs of spaces
RECURSIVE ReplaceDoubleSpace(_)
ReplaceDoubleSpace(s) ==
    IF Len(s) < 2 THEN s
    ELSE IF s[1] = " " /\ s[2] = " "
    THEN <<" ">> \o ReplaceDoubleSpace(SubSeq(s, 3, Len(s)))
    ELSE <<s[1]>> \o ReplaceDoubleSpace(Tail(s))

\* sanitize_string with an added replace of double spaces
validators_sanitize_string_collapsing(value, max_length) ==
    IF value = <<>> THEN <<>>
    ELSE ReplaceDoubleSpace(
             RemoveNul(html_escape(Truncate(strip(value), max_length))))

\* validators.sanitize_string with allow_html = False, the default and the
\* value sanitize_text and sanitize_tags pass
validators_sanitize_string(value, max_length) ==
    IF value = <<>> THEN <<>>
    ELSE RemoveNul(html_escape(Truncate(strip(value), max_length)))

sanitize_text(value, max_length) ==
    validators_sanitize_string(value, max_length)

TagChars == LowerChars \cup Digits \cup {"-", "_"} \cup Whitespace

IsTagChar(c) == c \in TagChars

\* re.sub(r'[^a-z0-9\-_\s]', '', clean_tag)
CleanTag(tag, max_tag_length) ==
    SelectSeq(lower(validators_sanitize_string(tag, max_tag_length)), IsTagChar)

\* validators.sanitize_tags: list(set(sanitized)), as a set
sanitize_tags(tags, max_tags, max_tag_length) ==
    IF tags = <<>> THEN {}
    ELSE LET first == Truncate(tags, max_tags) IN
         { CleanTag(first[i], max_tag_length) :
             i \in { j \in 1..Len(first) :
                       Len(CleanTag(first[j], max_tag_length)) >= 2 } }

----------------------------------------------------------------------------
(* validators.validate_url and URL_REGEX *)

\* s.split(sep), for a one-character sep
RECURSIVE Split(_, _)
Split(s, sep) ==
    IF \A i \in 1..Len(s) : s[i] # sep THEN <<s>>
    ELSE LET k == CHOOSE i \in 1..Len(s) :
                      s[i] = sep /\ \A j \in 1..(i - 1) : s[j] # sep
         IN <<SubSeq(s, 1, k - 1)>> \o Split(SubSeq(s, k + 1, Len(s)), sep)

LowerAlnum == LowerChars \cup Digits

\* [A-Z0-9](?:[A-Z0-9-]{0,61}[A-Z0-9])?
LabelMatch(l) ==
    /\ Len(l) >= 1
    /\ Len(l) <= 63
    /\ l[1] \in LowerAlnum
    /\ l[Len(l)] \in LowerAlnum
    /\ \A i \in 1..Len(l) : l[i] \in LowerAlnum \cup {"-"}

\* (?:LABEL\.)+[A-Z]{2,6}\.?
DomainMatch(h) ==
    LET d == IF h # <<>> /\ h[Len(h)] = "." THEN SubSeq(h, 1, Len(h) - 1) ELSE h
        parts == Split(d, ".")
        n == Len(parts)
    IN /\ n >= 2
       /\ Len(parts[n]) >= 2
       /\ Len(parts[n]) <= 6
       /\ AllIn(parts[n], LowerChars)
       /\ \A i \in 1..(n - 1) : LabelMatch(parts[i])

\* \d{1,3}\.\d{1,3}\.\d{1,3}\.\d{1,3}
IpMatch(h) ==
    LET parts == Split(h, ".") IN
    /\ Len(parts) = 4
    /\ \A i \in 1..4 :
          Len(parts[i]) >= 1 /\ Len(parts[i]) <= 3 /\ AllIn(parts[i], Digits)

HostMatch(h) ==
    \/ DomainMatch(h)
    \/ h = <<"l","o","c","a","l","h","o","s","t">>
    \/ IpMatch(h)

\* (?:/?|[/?]\S+)$ on a stripped string
PathMatch(x) ==
    \/ x = <<>>
    \/ x = <<"/">>
    \/ /\ Len(x) >= 2
       /\ x[1] \in {"/", "?"}
       /\ \A i \in 2..Len(x) : x[i] \notin Whitespace

\* (?::\d+)? followed by the path
TailMatch(t) ==
    \/ PathMatch(t)
    \/ \E k \in 2..Len(t) :
          /\ t[1] = ":"
          /\ AllIn(SubSeq(t, 2, k), Digits)
          /\ PathMatch(SubSeq(t, k + 1, Len(t)))

\* URL_REGEX.match(url), IGNORECASE
URL_REGEX_match(url) ==
    LET l == lower(url) IN
    \E p \in {HttpPrefix, HttpsPrefix} :
        /\ StartsWith(l, p)
        /\ LET rest == SubSeq(l, Len(p) + 1, Len(l)) IN
           \E k \in 0..Len(rest) :
               /\ HostMatch(SubSeq(rest, 1, k))
               /\ TailMatch(SubSeq(rest, k + 1, Len(rest)))

\* urlparse(url).scheme.lower(): the text before the first colon
UrlScheme(url) ==
    IF \E i \in 1..Len(url) : url[i] = ":"
    THEN lower(Split(url, ":")[1])
    ELSE <<>>

\* validators.validate_url with the default allowed_schemes
validators_validate_url(url) ==
    IF url = <<>> THEN Invalid
    ELSE LET u == strip(url) IN
         IF UrlScheme(u) \notin {<<"h","t","t","p">>, <<"h","t","t","p","s">>}
         THEN Invalid
         ELSE IF \E d \in { <<"j","a","v","a","s","c","r","i","p","t",":">>,
                            <<"d","a","t","a",":">>,
                            <<"v","b","s","c","r","i","p","t",":">> } :
                     Contains(lower(u), d)
         THEN Invalid
         ELSE IF ~URL_REGEX_match(u) THEN Invalid
         ELSE Valid(u)

----------------------------------------------------------------------------
(* Request inputs *)

RawEmails == {
    <<"a","@","b",".","c","o">>,
    <<" ","A","@","b",".","c","o">>,
    <<"c","@","d",".","c","o">>,
    <<"a","@","b">> }

Passwords == {
    <<"A","b","c","d","e","f","g","1">>,
    <<"X","y","z","w","v","u","t","2">>,
    <<"a","b","c">> }

\* Two passwords of 73 characters that differ in the last one only
Rep(c, n) == [i \in 1..n |-> c]
LongPassword1 == <<"A","b","1">> \o Rep("x", 69) \o <<"y">>
LongPassword2 == <<"A","b","1">> \o Rep("x", 69) \o <<"z">>
LongPasswords == {LongPassword1, LongPassword2}

RawNames == {
    <<"A","n","n">>,
    <<"A">> }

Roles == {"student", "admin"}

AvatarUrls == {
    None,
    Some(<<"d","a","t","a",":","x">>) }

\* name query parameters of PATCH /api/users/{user_id}
PatchNames == { <<"<","b",">">> }

Salts == {1}

TickSteps == {1440}

\* A string a client sends in place of a token without holding the key
OtherKey == "other-key"
Garbage == [kind |-> "garbage", payload |-> <<>>, sig |-> Sign(<<>>, "", "")]

\* Tokens a client can present: those it was given, those re-signed with a
\* key of its own, those whose exp it rewrote, and an arbitrary string
Forged(tok) == jwt_encode(tok.payload, OtherKey, ALGORITHM)
Tampered(tok) ==
    [tok EXCEPT !.payload = [tok.payload EXCEPT !["exp"] = @ + ACCESS_TOKEN_EXPIRE_MINUTES]]
Presentable ==
    issued \cup {Forged(t) : t \in issued} \cup {Tampered(t) : t \in issued}
           \cup {Garbage}

\* The validators are pure: each is tabulated once over the request inputs
RegisterEmail == [v \in RawEmails |-> RegisterRequest_validate_email(v)]
RegisterPassword ==
    [v \in Passwords \cup LongPasswords |-> RegisterRequest_validate_password(v)]
RegisterName == [v \in RawNames |-> RegisterRequest_validate_name(v)]
NewPassword ==
    [v \in Passwords \cup LongPasswords |->
        PasswordChangeRequest_validate_new_password(v)]
LoginEmail == [v \in RawEmails |-> LoginRequest_validate_email(v)]
CreateEmail == [v \in RawEmails |-> UserBase_validate_email(v)]
CreateName == [v \in RawNames |-> UserBase_validate_name(v)]
CreateAvatar == [v \in AvatarUrls |-> UserBase_validate_avatar(v)]

----------------------------------------------------------------------------
(* Responses *)

NoBody == [success |-> FALSE]

\* The outcome of a call: op names the route, arg is the argument the call was
\* made with (the e-mail of register, the e-mail and password of login, the
\* arguments of a library call), cred the credentials presented.
\* The JSON error response FastAPI builds from a raised HTTPException; ran says
\* whether the route handler's body was entered before the exception
Raised(op, arg, cred, e, ran) ==
    [op |-> op, arg |-> arg, cred |-> cred, status |-> e.status,
     detail |-> e.detail, www |-> e.www, ran |-> ran, body |-> NoBody]

\* A 200 response with the value the handler returned
Returned(op, arg, cred, body) ==
    [op |-> op, arg |-> arg, cred |-> cred, status |-> 200, detail |-> "",
     www |-> FALSE, ran |-> TRUE, body |-> body]

\* pydantic's RequestValidationError: the handler is not called
ValidationError == HTTPException(422, "validation error", FALSE)

\* No call has been made at the current instant
Idle == [op |-> "idle", arg |-> None, cred |-> None, status |-> 0, detail |-> "",
         www |-> FALSE, ran |-> FALSE, body |-> NoBody]

Init ==
    /\ users = <<>>
    /\ issued = {}
    /\ now = 0
    /\ resp = Idle
    /\ tables = [resource_requests |-> <<>>, posts |-> <<>>, tutors |-> <<>>,
                 tutor_requests |-> <<>>, categories |-> <<>>,
                 resources |-> <<>>]
    /\ calls = {}

\* A minted token is remembered; the model stops minting at MaxTokens
CanMint(tok) == tok \in issued \/ Cardinality(issued) < MaxTokens

----------------------------------------------------------------------------
(* auth.py service functions *)

\* register_user without the lookup of an existing row
register_user_nocheck(email, password, name, role, salt) ==
    LET password_hash == hash_password(password, salt)
        user == [id |-> NewId(users), email |-> email, name |-> name,
                 role |-> role, avatar_url |-> None,
                 password_hash |-> password_hash]
        access_token ==
            create_access_token([sub |-> user.id, email |-> user.email], None, now)
    IN /\ Len(users) < MaxUsers
       /\ CanMint(access_token)
       /\ users' = Append(users, user)
       /\ issued' = issued \cup {access_token}
       /\ resp' = Returned("register", email, None,
                           [access_token |-> access_token,
                            token_type |-> "bearer",
                            expires_in |-> ACCESS_TOKEN_EXPIRE_MINUTES * 60,
                            user |-> Pop(user, "password_hash")])
       /\ UNCHANGED now

register_user(email, password, name, role, salt) ==
    LET existing == SelectByEmail(users, email) IN
    IF existing # <<>>
    THEN /\ resp' = Raised("register", email, None,
                           HTTPException(400, "Email already registered", FALSE), TRUE)
         /\ UNCHANGED <<users, issued, now>>
    ELSE LET password_hash == hash_password(password, salt)
             user == [id |-> NewId(users), email |-> email, name |-> name,
                      role |-> role, avatar_url |-> None,
                      password_hash |-> password_hash]
             access_token ==
                 create_access_token([sub |-> user.id, email |-> user.email], None, now)
         IN /\ Len(users) < MaxUsers
            /\ CanMint(access_token)
            /\ users' = Append(users, user)
            /\ issued' = issued \cup {access_token}
            /\ resp' = Returned("register", email, None,
                                [access_token |-> access_token,
                                 token_type |-> "bearer",
                                 expires_in |-> ACCESS_TOKEN_EXPIRE_MINUTES * 60,
                                 user |-> Pop(user, "password_hash")])
            /\ UNCHANGED now

\* login_user with a separate error for an e-mail that has no row
login_user_enumerating(email, password) ==
    LET result == SelectByEmail(users, email) IN
    IF result = <<>>
    THEN /\ resp' = Raised("login", [email |-> email, password |-> password], None,
                           HTTPException(404, "User not found", FALSE), TRUE)
         /\ UNCHANGED <<users, issued, now>>
    ELSE LET user == result[1] IN
         IF ~verify_password(password, user.password_hash)
         THEN /\ resp' = Raised("login", [email |-> email, password |-> password], None,
                                HTTPException(401, "Invalid email or password", FALSE), TRUE)
              /\ UNCHANGED <<users, issued, now>>
         ELSE LET access_token ==
                      create_access_token([sub |-> user.id, email |-> user.email], None, now)
              IN /\ CanMint(access_token)
                 /\ issued' = issued \cup {access_token}
                 /\ resp' = Returned("login", [email |-> email, password |-> password], None,
                                     [access_token |-> access_token,
                                      token_type |-> "bearer",
                                      expires_in |-> ACCESS_TOKEN_EXPIRE_MINUTES * 60,
                                      user |-> Pop(user, "password_hash")])
                 /\ UNCHANGED <<users, now>>

login_user(email, password) ==
    LET result == SelectByEmail(users, email) IN
    IF result = <<>>
    THEN /\ resp' = Raised("login", [email |-> email, password |-> password], None,
                           HTTPException(401, "Invalid email or password", FALSE), TRUE)
         /\ UNCHANGED <<users, issued, now>>
    ELSE LET user == result[1] IN
         IF ~verify_password(password, user.password_hash)
         THEN /\ resp' = Raised("login", [email |-> email, password |-> password], None,
                                HTTPException(401, "Invalid email or password", FALSE), TRUE)
              /\ UNCHANGED <<users, issued, now>>
         ELSE LET access_token ==
                      create_access_token([sub |-> user.id, email |-> user.email], None, now)
              IN /\ CanMint(access_token)
                 /\ issued' = issued \cup {access_token}
                 /\ resp' = Returned("login", [email |-> email, password |-> password], None,
                                     [access_token |-> access_token,
                                      token_type |-> "bearer",
                                      expires_in |-> ACCESS_TOKEN_EXPIRE_MINUTES * 60,
                                      user |-> Pop(user, "password_hash")])
                 /\ UNCHANGED <<users, now>>

\* the row deleted and inserted again, under a new id
UpdateHash_reinsert(tbl, user_id, h) ==
    [i \in 1..Len(tbl) |->
        IF tbl[i].id = user_id
        THEN [tbl[i] EXCEPT !.password_hash = h, !.id = Len(tbl) + 1]
        ELSE tbl[i]]

\* table.update({"password_hash": h}).eq("id", user_id)
UpdateHash(tbl, user_id, h) ==
    [i \in 1..Len(tbl) |->
        IF tbl[i].id = user_id THEN [tbl[i] EXCEPT !.password_hash = h] ELSE tbl[i]]

\* change_password without the check of the current password
change_password_noverify(cred, user_id, current_password, new_password, salt) ==
    LET result == SelectById(users, user_id)
        arg == [user_id |-> user_id, current_password |-> current_password,
                new_password |-> new_password]
    IN
    IF result = <<>>
    THEN /\ resp' = Raised("change-password", arg, cred,
                           HTTPException(404, "User not found", FALSE), TRUE)
         /\ UNCHANGED <<users, issued, now>>
    ELSE /\ users' = UpdateHash(users, user_id, hash_password(new_password, salt))
         /\ resp' = Returned("change-password", arg, cred,
                             [success |-> TRUE, message |-> "Password changed successfully"])
         /\ UNCHANGED <<issued, now>>

change_password(cred, user_id, current_password, new_password, salt) ==
    LET result == SelectById(users, user_id)
        arg == [user_id |-> user_id, current_password |-> current_password,
                new_password |-> new_password]
    IN
    IF result = <<>>
    THEN /\ resp' = Raised("change-password", arg, cred,
                           HTTPException(404, "User not found", FALSE), TRUE)
         /\ UNCHANGED <<users, issued, now>>
    ELSE IF ~verify_password(current_password, result[1].password_hash)
    THEN /\ resp' = Raised("change-password", arg, cred,
                           HTTPException(401, "Current password is incorrect", FALSE), TRUE)
         /\ UNCHANGED <<users, issued, now>>
    ELSE /\ users' = UpdateHash(users, user_id, hash_password(new_password, salt))
         /\ resp' = Returned("change-password", arg, cred,
                             [success |-> TRUE, message |-> "Password changed successfully"])
         /\ UNCHANGED <<issued, now>>

----------------------------------------------------------------------------
(* routes/auth.py *)

\* POST /api/auth/register
register(email, password, name, role, salt) ==
    LET e == RegisterEmail[email]
        p == RegisterPassword[password]
        n == RegisterName[name]
        r == RegisterRequest_validate_role(role)
    IN IF ~(e.ok /\ p.ok /\ n.ok /\ r.ok)
       THEN /\ resp' = Raised("register", None, None, ValidationError, FALSE)
            /\ UNCHANGED <<users, issued, now>>
       ELSE register_user(e.v, p.v, n.v, r.v, salt)

\* POST /api/auth/login
login(email, password) ==
    login_user(LoginEmail[email], password)

\* GET /api/auth/me
get_profile(token) ==
    LET current_user == get_current_user(token, now, users) IN
    /\ resp' = IF ~current_user.ok
               THEN Raised("me", None, Some(token), current_user, FALSE)
               ELSE Returned("me", None, Some(token),
                             [success |-> TRUE, data |-> current_user.user])
    /\ UNCHANGED <<users, issued, now>>

\* POST /api/auth/change-password
update_password(token, current_password, new_password, salt) ==
    LET current_user == get_current_user(token, now, users)
        p == NewPassword[new_password]
    IN IF ~current_user.ok
       THEN /\ resp' = Raised("change-password", None, Some(token), current_user, FALSE)
            /\ UNCHANGED <<users, issued, now>>
       ELSE IF ~p.ok
       THEN /\ resp' = Raised("change-password", None, Some(token), ValidationError, FALSE)
            /\ UNCHANGED <<users, issued, now>>
       ELSE change_password(Some(token), current_user.user.id,
                            current_password, p.v, salt)

\* POST /api/auth/logout
logout(token) ==
    LET current_user == get_current_user(token, now, users) IN
    /\ resp' = IF ~current_user.ok
               THEN Raised("logout", None, Some(token), current_user, FALSE)
               ELSE Returned("logout", None, Some(token),
                             [success |-> TRUE, message |-> "Logged out successfully"])
    /\ UNCHANGED <<users, issued, now>>

\* GET /api/auth/verify
verify_token(token) ==
    LET current_user == get_current_user(token, now, users) IN
    /\ resp' = IF ~current_user.ok
               THEN Raised("verify", None, Some(token), current_user, FALSE)
               ELSE Returned("verify", None, Some(token),
                             [success |-> TRUE, valid |-> TRUE,
                              user |-> current_user.user])
    /\ UNCHANGED <<users, issued, now>>

----------------------------------------------------------------------------
(* routes/users.py *)

RECURSIVE Reverse(_)
Reverse(s) == IF s = <<>> THEN <<>> ELSE Append(Reverse(Tail(s)), Head(s))

\* GET /api/users: role is None or Some(role); newest rows first
get_all_users(role, limit) ==
    LET query == IF role # None /\ role[1] # ""
                 THEN SelectByRole(users, role[1])
                 ELSE users
        result == Truncate(Reverse(query), limit)
    IN /\ resp' = Returned("users", None, None, [success |-> TRUE, data |-> result])
       /\ UNCHANGED <<users, issued, now>>

\* GET /api/users/{user_id}
get_user(user_id) ==
    LET result == SelectById(users, user_id) IN
    /\ resp' = IF result = <<>>
               THEN Raised("user", None, None, HTTPException(404, "User not found", FALSE), TRUE)
               ELSE Returned("user", None, None, [success |-> TRUE, data |-> result[1]])
    /\ UNCHANGED <<users, issued, now>>

\* GET /api/users/email/{email}
get_user_by_email(email) ==
    LET result == SelectByEmail(users, email) IN
    /\ resp' = IF result = <<>>
               THEN Raised("user-by-email", None, None,
                           HTTPException(404, "User not found", FALSE), TRUE)
               ELSE Returned("user-by-email", None, None,
                             [success |-> TRUE, data |-> result[1]])
    /\ UNCHANGED <<users, issued, now>>

\* POST /api/users
create_user(email, name, role, avatar_url) ==
    LET e == CreateEmail[email]
        n == CreateName[name]
        r == UserBase_validate_role(role)
        a == CreateAvatar[avatar_url]
    IN IF ~(e.ok /\ n.ok /\ r.ok /\ a.ok)
       THEN /\ resp' = Raised("create-user", None, None, ValidationError, FALSE)
            /\ UNCHANGED <<users, issued, now>>
       ELSE IF SelectByEmail(users, e.v) # <<>>
       THEN /\ resp' = Raised("create-user", None, None,
                              HTTPException(400, "User with this email already exists",
                                            FALSE), TRUE)
            /\ UNCHANGED <<users, issued, now>>
       ELSE LET row == [id |-> NewId(users), email |-> e.v, name |-> n.v,
                        role |-> r.v, avatar_url |-> a.v,
                        password_hash |-> NullHash]
            IN /\ Len(users) < MaxUsers
               /\ users' = Append(users, row)
               /\ resp' = Returned("create-user", None, None,
                                   [success |-> TRUE, data |-> row])
               /\ UNCHANGED <<issued, now>>

\* table.update(update_data).eq("id", user_id); name and avatar_url are None
\* when the field is not in update_data
UpdateUserRow(row, name, avatar_url) ==
    [row EXCEPT !.name = IF name # None THEN name[1] ELSE @,
                !.avatar_url = IF avatar_url # None THEN avatar_url ELSE @]

\* PATCH /api/users/{user_id}: name and avatar_url are query parameters
update_user(user_id, name, avatar_url) ==
    IF name = None /\ avatar_url = None
    THEN /\ resp' = Raised("update-user", None, None,
                           HTTPException(400, "No fields to update", FALSE), TRUE)
         /\ UNCHANGED <<users, issued, now>>
    ELSE IF SelectById(users, user_id) = <<>>
    THEN /\ resp' = Raised("update-user", None, None,
                           HTTPException(404, "User not found", FALSE), TRUE)
         /\ UNCHANGED <<users, issued, now>>
    ELSE /\ users' = [i \in 1..Len(users) |->
                        IF users[i].id = user_id
                        THEN UpdateUserRow(users[i], name, avatar_url)
                        ELSE users[i]]
         /\ resp' = Returned("update-user", None, None,
                             [success |-> TRUE,
                              data |-> UpdateUserRow(SelectById(users, user_id)[1],
                                                     name, avatar_url)])
         /\ UNCHANGED <<issued, now>>

\* Time passes; resp describes a call made at the current instant only
Tick(d) ==
    /\ now + d <= MaxTime
    /\ now' = now + d
    /\ resp' = Idle
    /\ UNCHANGED <<users, issued>>

----------------------------------------------------------------------------
(* The HTTP API *)

UserIds == 1..MaxUsers

Register ==
    /\ \E e \in RawEmails, p \in Passwords, n \in RawNames, r \in Roles, s \in Salts
          : register(e, p, n, r, s)
    /\ UNCHANGED <<tables, calls>>

Login ==
    /\ \E e \in RawEmails, p \in Passwords : login(e, p)
    /\ UNCHANGED <<tables, calls>>

GetProfile ==
    /\ \E t \in Presentable : get_profile(t)
    /\ UNCHANGED <<tables, calls>>

UpdatePassword ==
    /\ \E t \in Presentable, c \in Passwords, p \in Passwords, s \in Salts
          : update_password(t, c, p, s)
    /\ UNCHANGED <<tables, calls>>

Logout ==
    /\ \E t \in Presentable : logout(t)
    /\ UNCHANGED <<tables, calls>>

VerifyToken ==
    /\ \E t \in Presentable : verify_token(t)
    /\ UNCHANGED <<tables, calls>>

GetAllUsers ==
    /\ \E r \in {None} \cup {Some(x) : x \in Roles}, l \in {1, 50} : get_all_users(r, l)
    /\ UNCHANGED <<tables, calls>>

GetUser ==
    /\ \E u \in UserIds : get_user(u)
    /\ UNCHANGED <<tables, calls>>

GetUserByEmail ==
    /\ \E e \in RawEmails : get_user_by_email(e)
    /\ UNCHANGED <<tables, calls>>

CreateUser ==
    /\ \E e \in RawEmails, n \in RawNames, r \in Roles, a \in AvatarUrls
          : create_user(e, n, r, a)
    /\ UNCHANGED <<tables, calls>>

UpdateUser ==
    /\ \E u \in UserIds, n \in {None} \cup {Some(x) : x \in PatchNames}, a \in {None}
          : update_user(u, n, a)
    /\ UNCHANGED <<tables, calls>>

Time ==
    /\ \E d \in TickSteps : Tick(d)
    /\ UNCHANGED <<tables, calls>>

Next ==
    \/ Register
    \/ Login
    \/ GetProfile
    \/ UpdatePassword
    \/ Logout
    \/ VerifyToken
    \/ GetAllUsers
    \/ GetUser
    \/ GetUserByEmail
    \/ CreateUser
    \/ UpdateUser
    \/ Time

Spec == Init /\ [][Next]_vars

----------------------------------------------------------------------------
(* The auth library called directly: create_access_token with any claim    *)
(* set and ttl, decode_token, and the dependencies get_current_user (under *)
(* GET /api/auth/me), get_current_user_optional and require_role           *)

Email1 == <<"a","@","b",".","c","o">>

\* data: with and without sub, for a user id that has no row, with a
\* caller-supplied exp
ClaimSets == {
    [sub |-> 1, email |-> Email1],
    [sub |-> 2],
    [email |-> Email1],
    [sub |-> 1, exp |-> 0] }

\* expires_delta in minutes: absent, zero, two days
Ttls == {None, Some(0), Some(2880)}

AllowedSets == {{"admin"}, {"student", "tutor"}}

CreateAccessToken ==
    \E data \in ClaimSets, expires_delta \in Ttls :
        LET token == create_access_token(data, expires_delta, now) IN
        /\ CanMint(token)
        /\ issued' = issued \cup {token}
        /\ resp' = Returned("create_access_token",
                            [data |-> data, expires_delta |-> expires_delta],
                            None, [token |-> token])
        /\ UNCHANGED <<users, now, tables, calls>>

DecodeToken ==
    \E token \in Presentable :
        LET d == decode_token(token, now) IN
        /\ resp' = IF d.ok
                   THEN Returned("decode_token", None, Some(token),
                                 [payload |-> d.payload])
                   ELSE Raised("decode_token", None, Some(token), d, FALSE)
        /\ UNCHANGED <<users, issued, now, tables, calls>>

RequireRole ==
    \E allowed_roles \in AllowedSets, token \in Presentable :
        LET r == require_role(allowed_roles, token, now, users) IN
        /\ resp' = IF r.ok
                   THEN Returned("require_role", allowed_roles, Some(token),
                                 [user |-> r.user])
                   ELSE Raised("require_role", allowed_roles, Some(token), r, FALSE)
        /\ UNCHANGED <<users, issued, now, tables, calls>>

GetCurrentUserOptional ==
    \E credentials \in {None} \cup {Some(t) : t \in Presentable} :
        LET r == get_current_user_optional(credentials, now, users) IN
        /\ resp' = IF r.ok
                   THEN Returned("optional", None, credentials, [user |-> r.user])
                   ELSE Raised("optional", None, credentials, r, FALSE)
        /\ UNCHANGED <<users, issued, now, tables, calls>>

\* POST /api/users for one e-mail address, in either role
CreateOneUser ==
    /\ \E r \in Roles : create_user(Email1, <<"A","n","n">>, r, None)
    /\ UNCHANGED <<tables, calls>>

NextLib ==
    \/ CreateOneUser
    \/ CreateAccessToken
    \/ DecodeToken
    \/ GetProfile
    \/ RequireRole
    \/ GetCurrentUserOptional
    \/ Time

SpecLib == Init /\ [][NextLib]_vars

----------------------------------------------------------------------------
(* Accounts: registration, login, password change and logout, with e-mail  *)
(* addresses in several spellings and passwords longer than 72 characters  *)

AccountEmails == {
    <<"a","@","b",".","c","o">>,
    <<" ","A","@","b",".","c","o">>,
    <<"c","@","d",".","c","o">> }

\* The spellings presented at login
AccountLoginEmails == {
    <<" ","A","@","b",".","c","o">>,
    <<"c","@","d",".","c","o">> }

AccountPasswords == { <<"A","b","c","d","e","f","g","1">> } \cup LongPasswords

AccountName == <<"A","n","n">>

AccountRegister ==
    /\ \E e \in AccountEmails, p \in AccountPasswords, s \in Salts
          : register(e, p, AccountName, "student", s)
    /\ UNCHANGED <<tables, calls>>

AccountCreateUser ==
    /\ \E e \in AccountEmails : create_user(e, AccountName, "student", None)
    /\ UNCHANGED <<tables, calls>>

AccountLogin ==
    /\ \E e \in AccountLoginEmails, p \in AccountPasswords : login(e, p)
    /\ UNCHANGED <<tables, calls>>

AccountUpdatePassword ==
    /\ \E t \in Presentable, c \in AccountPasswords, p \in AccountPasswords,
          s \in Salts
          : update_password(t, c, p, s)
    /\ UNCHANGED <<tables, calls>>

NextAccount ==
    \/ AccountRegister
    \/ AccountCreateUser
    \/ AccountLogin
    \/ AccountUpdatePassword
    \/ Logout
    \/ GetProfile
    \/ Time

SpecAccount == Init /\ [][NextAccount]_vars

----------------------------------------------------------------------------
(* The validation layer called on its own: each validator applied to an    *)
(* input drawn from a set that covers its accepting and rejecting cases    *)

PasswordLengths == {0, 7, 8, 128, 129}

\* A password of length n with a character of each class in cls, then filler
PasswordOf(n, cls) ==
    LET head == (IF "upper" \in cls THEN <<"Q">> ELSE <<>>)
                \o (IF "lower" \in cls THEN <<"q">> ELSE <<>>)
                \o (IF "digit" \in cls THEN <<"7">> ELSE <<>>)
                \o (IF "upper_other" \in cls THEN <<CapitalEAcute>> ELSE <<>>)
                \o (IF "digit_other" \in cls THEN <<ArabicIndicThree>> ELSE <<>>)
    IN IF n <= Len(head) THEN SubSeq(head, 1, n)
       ELSE head \o Rep("#", n - Len(head))

PasswordInputs ==
    { PasswordOf(n, cls) : n \in PasswordLengths,
                           cls \in SUBSET {"upper", "lower", "digit",
                                           "upper_other", "digit_other"} }

UrlPrefixes == { <<>>, HttpPrefix, <<"H","T","T","P","S",":","/","/">>,
                 <<"f","t","p",":","/","/">> }

UrlHosts == { <<"a",".","c","o">>,
              <<"l","o","c","a","l","h","o","s","t",":","8","0">>,
              <<"a","-",".","c","o">> }

UrlTails == { <<>>,
              <<"/","x">>,
              <<"/","x"," ","y">>,
              <<"/","<","s","c","r","i","p","t",">">>,
              <<"/","?","q","=","j","a","v","a","s","c","r","i","p","t",":","x">>,
              <<"/","?","o","n","c","l","i","c","k","=","x">>,
              <<"/","?","o","n","m","o","u","s","e","o","v","e","r","=","x">> }

UrlInputs ==
    {<<>>} \cup { p \o h \o t : p \in UrlPrefixes, h \in UrlHosts, t \in UrlTails }

\* 8-4-4-4-12 groups of one character
UuidOf(c) ==
    Rep(c, 8) \o <<"-">> \o Rep(c, 4) \o <<"-">> \o Rep(c, 4) \o <<"-">>
              \o Rep(c, 4) \o <<"-">> \o Rep(c, 12)

UuidInputs ==
    { UuidOf(c) : c \in {"0", "a", "F", "g", "-"} }
    \cup { UuidOf(c) \o <<"\n">> : c \in {"a", "F"} }
    \cup { UuidOf("a") \o <<"\n", "\n">>,
           <<" ">> \o UuidOf("a"),
           SubSeq(UuidOf("a"), 1, 35),
           UuidOf("a") \o <<"a">>,
           [UuidOf("a") EXCEPT ![9] = "a"],
           [UuidOf("F") EXCEPT ![1] = "a"],
           <<"n","o","t","-","a","-","u","u","i","d">>,
           <<>> }

TextInputs == {
    <<>>,
    <<"a","b","c">>,
    <<" ","a"," ","b"," ">>,
    <<"a"," "," "," ","b">>,
    <<"a"," ","&","a","m","p",";"," ","b">>,
    <<"&","l","t",";","b","&","g","t",";">>,
    <<"<","b",">">>,
    <<"i","t","'","s">>,
    <<"a","&","b">>,
    <<"a"," ",NUL>>,
    <<"a","b","c","d","e","f","g">> }

TextMaxLengths == {5, 5000}

TagPool == {
    <<"a","b">>,
    <<"A","B">>,
    <<"a">>,
    <<"a","&","b">>,
    <<"<","b",">">>,
    <<" ","x"," ","y"," ">>,
    <<"a","-","b","_","c">> }

TagLists ==
    {<<>>} \cup { <<t>> : t \in TagPool } \cup { <<t, u>> : t \in TagPool, u \in TagPool }

TagMaxTags == {1, 10}

TagMaxLengths == {3, 50}

\* RegisterRequest.validate_password and
\* PasswordChangeRequest.validate_new_password on the same string
ValidatePassword ==
    \E v \in PasswordInputs :
        /\ resp' = Returned("validate_password", v, None,
                            [register |-> RegisterRequest_validate_password(v),
                             change |-> PasswordChangeRequest_validate_new_password(v)])
        /\ UNCHANGED <<users, issued, now, tables, calls>>

\* schemas.validate_url and validators.validate_url on the same string
ValidateUrl ==
    \E url \in UrlInputs :
        /\ resp' = Returned("validate_url", url, None,
                            [schemas |-> validate_url(url),
                             validators |-> validators_validate_url(url)])
        /\ UNCHANGED <<users, issued, now, tables, calls>>

\* schemas.validate_uuid and validators.validate_uuid on the same string
ValidateUuid ==
    \E v \in UuidInputs :
        /\ resp' = Returned("validate_uuid", v, None,
                            [schemas |-> validate_uuid(v),
                             validators |-> validators_validate_uuid(v)])
        /\ UNCHANGED <<users, issued, now, tables, calls>>

\* sanitize_text applied once, and again to its own result
SanitizeText ==
    \E value \in TextInputs, max_length \in TextMaxLengths :
        LET once == sanitize_text(value, max_length) IN
        /\ resp' = Returned("sanitize_text",
                            [value |-> value, max_length |-> max_length], None,
                            [once |-> once,
                             twice |-> sanitize_text(once, max_length)])
        /\ UNCHANGED <<users, issued, now, tables, calls>>

SanitizeTags ==
    \E tags \in TagLists, max_tags \in TagMaxTags, max_tag_length \in TagMaxLengths :
        /\ resp' = Returned("sanitize_tags",
                            [tags |-> tags, max_tags |-> max_tags,
                             max_tag_length |-> max_tag_length], None,
                            [tags |-> sanitize_tags(tags, max_tags, max_tag_length)])
        /\ UNCHANGED <<users, issued, now, tables, calls>>

\* ResourceBase.title: Field(min_length=3, max_length=200), validate_title
ResourceBase_validate_title(v) ==
    IF Len(v) < 3 \/ Len(v) > 200 THEN Invalid
    ELSE LET t == sanitize_string(v, 200) IN
         IF Len(t) < 3 THEN Invalid ELSE Valid(t)

\* Strings for sanitize_string: the texts above and a title of 41 ampersands
StringInputs == TextInputs \cup { Rep("&", 41) }

StringMaxLengths == {5, 200}

\* schemas.sanitize_string and validators.sanitize_string on the same
\* arguments, and the resource title validator on the same string
SanitizeString ==
    \E value \in StringInputs, max_length \in StringMaxLengths :
        /\ resp' = Returned("sanitize_string",
                            [value |-> value, max_length |-> max_length], None,
                            [schemas |-> sanitize_string(value, max_length),
                             validators |->
                                 validators_sanitize_string(value, max_length),
                             title |-> ResourceBase_validate_title(value)])
        /\ UNCHANGED <<users, issued, now, tables, calls>>

NextValidation ==
    \/ ValidatePassword
    \/ ValidateUrl
    \/ ValidateUuid
    \/ SanitizeText
    \/ SanitizeTags
    \/ SanitizeString

SpecValidation == Init /\ [][NextValidation]_vars

----------------------------------------------------------------------------
(* Resource requests: schemas.py and routes/requests.py.  The enumerated   *)
(* fields are strings compared as wholes; topic and description are        *)
(* sequences of characters.  An optional field is None or Some(value).     *)

MaxRequests == 2

\* ResourceRequestBase.topic: Field(min_length=3, max_length=200), validate_topic
ResourceRequestBase_validate_topic(v) ==
    IF Len(v) < 3 \/ Len(v) > 200 THEN Invalid
    ELSE LET t == sanitize_string(v, 200) IN
         IF Len(t) < 3 THEN Invalid ELSE Valid(t)

\* ResourceRequestBase.description: Field(min_length=10, max_length=2000),
\* validate_description
ResourceRequestBase_validate_description(v) ==
    IF Len(v) < 10 \/ Len(v) > 2000 THEN Invalid
    ELSE LET t == sanitize_string(v, 2000) IN
         IF Len(t) < 10 THEN Invalid ELSE Valid(t)

\* ResourceRequestBase.validate_category_id
ResourceRequestBase_validate_category_id(v) ==
    IF v # None /\ v[1] # <<>> /\ strip(v[1]) # <<>>
    THEN LET u == validate_uuid(v[1]) IN
         IF u.ok THEN Valid(Some(u.v)) ELSE Invalid
    ELSE Valid(None)

\* ResourceRequestBase.validate_format
ResourceRequestBase_validate_format(v) ==
    IF v \notin {"pdf", "video", "notes", "past_paper", "any"}
    THEN Invalid
    ELSE Valid(v)

\* ResourceRequestCreate.validate_requested_by
ResourceRequestCreate_validate_requested_by(v) == validate_uuid(v)

\* ResourceRequestStatusUpdate.validate_status
ResourceRequestStatusUpdate_validate_status(v) ==
    IF v \notin {"pending", "in_progress", "fulfilled", "closed"}
    THEN Invalid
    ELSE Valid(v)

\* ResourceRequestUpdate.topic: Field(None, min_length=3, max_length=200),
\* validate_topic
ResourceRequestUpdate_validate_topic(v) ==
    IF v = None THEN Valid(None)
    ELSE IF Len(v[1]) < 3 \/ Len(v[1]) > 200 THEN Invalid
    ELSE Valid(Some(sanitize_string(v[1], 200)))

\* ResourceRequestUpdate.description: Field(None, max_length=2000),
\* validate_description
ResourceRequestUpdate_validate_description(v) ==
    IF v = None THEN Valid(None)
    ELSE IF Len(v[1]) > 2000 THEN Invalid
    ELSE IF v[1] # <<>> THEN Valid(Some(sanitize_string(v[1], 2000)))
    ELSE Valid(v)

\* ResourceRequestUpdate.validate_preferred_format
ResourceRequestUpdate_validate_preferred_format(v) ==
    IF v # None /\ v[1] # ""
    THEN IF v[1] \notin {"any", "pdf", "video", "notes", "past_paper", "link"}
         THEN Invalid
         ELSE Valid(v)
    ELSE Valid(v)

\* models.ResourceRequest: the column defaults of a new row
ResourceRequestRow(id, data) ==
    [id |-> id, topic |-> data.topic, description |-> data.description,
     category_id |-> data.category_id,
     preferred_format |-> data.preferred_format,
     requested_by |-> data.requested_by, status |-> "pending",
     fulfilled_by |-> None, fulfilled_resource_id |-> None]

\* POST /api/requests
create_request(topic, description, category_id, preferred_format, requested_by) ==
    LET t == ResourceRequestBase_validate_topic(topic)
        d == ResourceRequestBase_validate_description(description)
        c == ResourceRequestBase_validate_category_id(category_id)
        f == ResourceRequestBase_validate_format(preferred_format)
        u == ResourceRequestCreate_validate_requested_by(requested_by)
        arg == [preferred_format |-> Some(preferred_format), status |-> None]
    IN IF ~(t.ok /\ d.ok /\ c.ok /\ f.ok /\ u.ok)
       THEN /\ resp' = Raised("create_request", arg, None, ValidationError, FALSE)
            /\ UNCHANGED <<users, issued, now, tables, calls>>
       ELSE LET data == [topic |-> strip(t.v), description |-> strip(d.v),
                         category_id |-> c.v, preferred_format |-> f.v,
                         requested_by |-> u.v]
                row == ResourceRequestRow(NewId(tables.resource_requests), data)
            IN /\ Len(tables.resource_requests) < MaxRequests
               /\ tables' = [tables EXCEPT !.resource_requests = Append(@, row)]
               /\ resp' = Returned("create_request", arg, None,
                                   [success |-> TRUE, data |-> row])
               /\ UNCHANGED <<users, issued, now, calls>>

\* table.update(update_data).eq("id", request_id) with the status fields
UpdateStatusRow(row, status, fulfilled_by, fulfilled_resource_id) ==
    [row EXCEPT !.status = status,
                !.fulfilled_by =
                    IF fulfilled_by # None /\ fulfilled_by[1] # <<>>
                    THEN fulfilled_by ELSE @,
                !.fulfilled_resource_id =
                    IF fulfilled_resource_id # None /\ fulfilled_resource_id[1] # <<>>
                    THEN fulfilled_resource_id ELSE @]

\* PATCH /api/requests/{request_id}/status
update_request_status(request_id, status, fulfilled_by, fulfilled_resource_id) ==
    LET st == ResourceRequestStatusUpdate_validate_status(status)
        arg == [preferred_format |-> None, status |-> Some(status)]
    IN IF ~st.ok
       THEN /\ resp' = Raised("update_request_status", arg, None,
                              ValidationError, FALSE)
            /\ UNCHANGED <<users, issued, now, tables, calls>>
       ELSE IF SelectById(tables.resource_requests, request_id) = <<>>
       THEN /\ resp' = Raised("update_request_status", arg, None,
                              HTTPException(404, "Request not found", FALSE), TRUE)
            /\ UNCHANGED <<users, issued, now, tables, calls>>
       ELSE LET new(row) == UpdateStatusRow(row, st.v, fulfilled_by,
                                            fulfilled_resource_id)
            IN /\ tables' = [tables EXCEPT !.resource_requests =
                                [i \in 1..Len(@) |->
                                    IF @[i].id = request_id THEN new(@[i])
                                    ELSE @[i]]]
               /\ resp' = Returned("update_request_status", arg, None,
                             [success |-> TRUE,
                              data |-> new(SelectById(tables.resource_requests,
                                                      request_id)[1])])
               /\ UNCHANGED <<users, issued, now, calls>>

\* table.update(update_data).eq("id", request_id): a field that is None is
\* not in update_data
UpdateRequestRow(row, topic, description, preferred_format) ==
    [row EXCEPT !.topic = IF topic # None THEN topic[1] ELSE @,
                !.description = IF description # None THEN description[1] ELSE @,
                !.preferred_format =
                    IF preferred_format # None THEN preferred_format[1] ELSE @]

\* PATCH /api/requests/{request_id}
update_request(request_id, topic, description, preferred_format) ==
    LET t == ResourceRequestUpdate_validate_topic(topic)
        d == ResourceRequestUpdate_validate_description(description)
        f == ResourceRequestUpdate_validate_preferred_format(preferred_format)
        arg == [id |-> request_id, topic |-> topic, description |-> description,
                preferred_format |-> preferred_format, status |-> None]
    IN IF ~(t.ok /\ d.ok /\ f.ok)
       THEN /\ resp' = Raised("update_request", arg, None, ValidationError, FALSE)
            /\ UNCHANGED <<users, issued, now, tables, calls>>
       ELSE IF t.v = None /\ d.v = None /\ f.v = None
       THEN /\ resp' = Raised("update_request", arg, None,
                              HTTPException(400, "No fields to update", FALSE), TRUE)
            /\ UNCHANGED <<users, issued, now, tables, calls>>
       ELSE IF SelectById(tables.resource_requests, request_id) = <<>>
       THEN /\ resp' = Raised("update_request", arg, None,
                              HTTPException(404, "Request not found", FALSE), TRUE)
            /\ UNCHANGED <<users, issued, now, tables, calls>>
       ELSE LET new(row) == UpdateRequestRow(row, t.v, d.v, f.v)
            IN /\ tables' = [tables EXCEPT !.resource_requests =
                                [i \in 1..Len(@) |->
                                    IF @[i].id = request_id THEN new(@[i])
                                    ELSE @[i]]]
               /\ resp' = Returned("update_request", arg, None,
                             [success |-> TRUE,
                              data |-> new(SelectById(tables.resource_requests,
                                                      request_id)[1])])
               /\ UNCHANGED <<users, issued, now, calls>>

\* Inputs of the request routes
RequestIds == 1..MaxRequests

RequestTopics == { <<"a","b","c">>, <<"a","b">> }

RequestDescriptions == { Rep("d", 10) }

RequestFormats == {"pdf", "link", "exe", ""}

\* A status with the fulfilled_by of the same body
StatusUpdates == { <<"in_progress", None>>,
                   <<"fulfilled", Some(UuidOf("a"))>>,
                   <<"done", None>> }

RequestUsers == { UuidOf("a"), <<"x">> }

PatchTopics == {None} \cup {Some(t) : t \in RequestTopics}

CreateRequest ==
    \E t \in RequestTopics, d \in RequestDescriptions, f \in RequestFormats,
       u \in RequestUsers :
        create_request(t, d, None, f, u)

UpdateRequestStatus ==
    \E r \in RequestIds, su \in StatusUpdates :
        update_request_status(r, su[1], su[2], None)

UpdateRequest ==
    \E r \in RequestIds, t \in PatchTopics,
       f \in {None} \cup {Some(x) : x \in RequestFormats} :
        update_request(r, t, None, f)

NextRequests ==
    \/ CreateRequest
    \/ UpdateRequestStatus
    \/ UpdateRequest

SpecRequests == Init /\ [][NextRequests]_vars

----------------------------------------------------------------------------
(* Posts: schemas.py and routes/posts.py *)

MaxPosts == 2

\* PostBase.title: Field(min_length=5, max_length=200), validate_title
PostBase_validate_title(v) ==
    IF Len(v) < 5 \/ Len(v) > 200 THEN Invalid
    ELSE LET t == sanitize_string(v, 200) IN
         IF Len(t) < 5 THEN Invalid ELSE Valid(t)

\* PostBase.description: Field(min_length=20, max_length=5000),
\* validate_description
PostBase_validate_description(v) ==
    IF Len(v) < 20 \/ Len(v) > 5000 THEN Invalid
    ELSE LET t == sanitize_string(v, 5000) IN
         IF Len(t) < 20 THEN Invalid ELSE Valid(t)

\* PostBase.validate_post_type
PostBase_validate_post_type(v) ==
    IF v \notin {"resource", "help_request", "tutor_flyer", "announcement"}
    THEN Invalid
    ELSE Valid(v)

\* PostBase.validate_category_id and PostUpdate.validate_category_id
PostBase_validate_category_id(v) ==
    IF v # None /\ v[1] # <<>> /\ strip(v[1]) # <<>>
    THEN LET u == validate_uuid(v[1]) IN
         IF u.ok THEN Valid(Some(u.v)) ELSE Invalid
    ELSE Valid(None)

\* for url in v[:10]: the URLs that validate_url accepts, in order
RECURSIVE ValidatedUrls(_)
ValidatedUrls(urls) ==
    IF urls = <<>> THEN <<>>
    ELSE LET url == Head(urls)
             r == validate_url(url)
         IN IF strip(url) # <<>> /\ r.ok
            THEN <<r.v>> \o ValidatedUrls(Tail(urls))
            ELSE ValidatedUrls(Tail(urls))

\* PostBase.validate_attachment_urls
PostBase_validate_attachment_urls(v) == Valid(ValidatedUrls(Truncate(v, 10)))

\* PostCreate.validate_author_id
PostCreate_validate_author_id(v) == validate_uuid(v)

\* PostUpdate.title: Field(None, min_length=5, max_length=200), validate_title
PostUpdate_validate_title(v) ==
    IF v = None THEN Valid(None)
    ELSE IF Len(v[1]) < 5 \/ Len(v[1]) > 200 THEN Invalid
    ELSE LET t == sanitize_string(v[1], 200) IN
         IF Len(t) < 5 THEN Invalid ELSE Valid(Some(t))

\* PostUpdate.description: Field(None, min_length=20, max_length=5000),
\* validate_description
PostUpdate_validate_description(v) ==
    IF v = None THEN Valid(None)
    ELSE IF Len(v[1]) < 20 \/ Len(v[1]) > 5000 THEN Invalid
    ELSE LET t == sanitize_string(v[1], 5000) IN
         IF Len(t) < 20 THEN Invalid ELSE Valid(Some(t))

\* PostUpdate.validate_attachment_urls
PostUpdate_validate_attachment_urls(v) ==
    IF v = None THEN Valid(None)
    ELSE Valid(Some(ValidatedUrls(Truncate(v[1], 10))))

\* models.Post: the column defaults of a new row
PostRow(id, data) ==
    [id |-> id, title |-> data.title, description |-> data.description,
     post_type |-> data.post_type, category_id |-> data.category_id,
     author_id |-> data.author_id, attachment_urls |-> data.attachment_urls,
     is_pinned |-> FALSE, is_active |-> TRUE]

\* posts_view filtered and ordered as get_all_posts asks: is_active rows,
\* pinned first, newest first
IsPinned(r) == r.is_pinned
IsNotPinned(r) == ~r.is_pinned
IsActive(r) == r.is_active

ActivePosts(tbl, post_type, category_id) ==
    LET matches(r) == /\ r.is_active
                      /\ post_type # None /\ post_type[1] # "" =>
                            r.post_type = post_type[1]
                      /\ category_id # None /\ category_id[1] # <<>> =>
                            r.category_id = category_id
        newest == Reverse(SelectSeq(tbl, matches))
    IN SelectSeq(newest, IsPinned) \o SelectSeq(newest, IsNotPinned)

\* GET /api/posts
get_all_posts(post_type, category_id, limit) ==
    /\ resp' = Returned("get_all_posts",
                        [post_type |-> post_type, category_id |-> category_id,
                         limit |-> limit], None,
                        [success |-> TRUE,
                         data |-> Truncate(ActivePosts(tables.posts, post_type,
                                                       category_id), limit)])
    /\ UNCHANGED <<users, issued, now, tables, calls>>

\* POST /api/posts
create_post(title, description, post_type, category_id, author_id, attachment_urls) ==
    LET t == PostBase_validate_title(title)
        d == PostBase_validate_description(description)
        pt == PostBase_validate_post_type(post_type)
        c == PostBase_validate_category_id(category_id)
        u == PostBase_validate_attachment_urls(attachment_urls)
        a == PostCreate_validate_author_id(author_id)
        arg == [title |-> title, post_type |-> post_type]
    IN IF ~(t.ok /\ d.ok /\ pt.ok /\ c.ok /\ u.ok /\ a.ok)
       THEN /\ resp' = Raised("create_post", arg, None, ValidationError, FALSE)
            /\ UNCHANGED <<users, issued, now, tables, calls>>
       ELSE LET data == [title |-> t.v, description |-> d.v, post_type |-> pt.v,
                         category_id |-> c.v, author_id |-> a.v,
                         attachment_urls |-> u.v]
                row == PostRow(NewId(tables.posts), data)
            IN /\ Len(tables.posts) < MaxPosts
               /\ tables' = [tables EXCEPT !.posts = Append(@, row)]
               /\ resp' = Returned("create_post", arg, None,
                                   [success |-> TRUE, data |-> row])
               /\ UNCHANGED <<users, issued, now, calls>>

\* table.update(update_data).eq("id", post_id): a field that is None is not
\* in update_data
UpdatePostRow(row, title, description, category_id, attachment_urls, is_active) ==
    [row EXCEPT !.title = IF title # None THEN title[1] ELSE @,
                !.description = IF description # None THEN description[1] ELSE @,
                !.category_id = IF category_id # None THEN category_id ELSE @,
                !.attachment_urls =
                    IF attachment_urls # None THEN attachment_urls[1] ELSE @,
                !.is_active = IF is_active # None THEN is_active[1] ELSE @]

\* PATCH /api/posts/{post_id}
update_post(post_id, title, description, category_id, attachment_urls, is_active) ==
    LET t == PostUpdate_validate_title(title)
        d == PostUpdate_validate_description(description)
        c == PostBase_validate_category_id(category_id)
        u == PostUpdate_validate_attachment_urls(attachment_urls)
        arg == [id |-> post_id, title |-> title, description |-> description,
                category_id |-> category_id,
                attachment_urls |-> attachment_urls, is_active |-> is_active]
    IN IF ~(t.ok /\ d.ok /\ c.ok /\ u.ok)
       THEN /\ resp' = Raised("update_post", arg, None, ValidationError, FALSE)
            /\ UNCHANGED <<users, issued, now, tables, calls>>
       ELSE IF t.v = None /\ d.v = None /\ c.v = None /\ u.v = None
               /\ is_active = None
       THEN /\ resp' = Raised("update_post", arg, None,
                              HTTPException(400, "No fields to update", FALSE), TRUE)
            /\ UNCHANGED <<users, issued, now, tables, calls>>
       ELSE IF SelectById(tables.posts, post_id) = <<>>
       THEN /\ resp' = Raised("update_post", arg, None,
                              HTTPException(404, "Post not found", FALSE), TRUE)
            /\ UNCHANGED <<users, issued, now, tables, calls>>
       ELSE LET new(row) == UpdatePostRow(row, t.v, d.v, c.v, u.v, is_active)
            IN /\ tables' = [tables EXCEPT !.posts =
                                [i \in 1..Len(@) |->
                                    IF @[i].id = post_id THEN new(@[i])
                                    ELSE @[i]]]
               /\ resp' = Returned("update_post", arg, None,
                             [success |-> TRUE,
                              data |-> new(SelectById(tables.posts, post_id)[1])])
               /\ UNCHANGED <<users, issued, now, calls>>

\* the row removed from the table
delete_post_hard(post_id) ==
    IF SelectById(tables.posts, post_id) = <<>>
    THEN /\ resp' = Raised("delete_post", [id |-> post_id], None,
                           HTTPException(404, "Post not found", FALSE), TRUE)
         /\ UNCHANGED <<users, issued, now, tables, calls>>
    ELSE /\ tables' = [tables EXCEPT !.posts =
                          SelectSeq(@, LAMBDA r : r.id # post_id)]
         /\ resp' = Returned("delete_post", [id |-> post_id], None,
                             [success |-> TRUE, message |-> "Post deleted"])
         /\ UNCHANGED <<users, issued, now, calls>>

\* DELETE /api/posts/{post_id}
delete_post(post_id) ==
    IF SelectById(tables.posts, post_id) = <<>>
    THEN /\ resp' = Raised("delete_post", [id |-> post_id], None,
                           HTTPException(404, "Post not found", FALSE), TRUE)
         /\ UNCHANGED <<users, issued, now, tables, calls>>
    ELSE /\ tables' = [tables EXCEPT !.posts =
                          [i \in 1..Len(@) |->
                              IF @[i].id = post_id
                              THEN [@[i] EXCEPT !.is_active = FALSE]
                              ELSE @[i]]]
         /\ resp' = Returned("delete_post", [id |-> post_id], None,
                             [success |-> TRUE, message |-> "Post deleted"])
         /\ UNCHANGED <<users, issued, now, calls>>

\* Inputs of the post routes
PostIds == 1..(MaxPosts + 1)

PostTitles == { <<"H","e","l","l","o">>, <<"H","i">> }

PostDescription == Rep("d", 20)

PostTypes == {"resource", "spam"}

PostAuthor == UuidOf("a")

CreatePost ==
    \E t \in PostTitles, pt \in PostTypes :
        create_post(t, PostDescription, pt, None, PostAuthor, <<>>)

UpdatePost ==
    \E p \in PostIds, t \in {None, Some(<<"W","o","r","l","d">>)},
       a \in {None, Some(TRUE), Some(FALSE)} :
        update_post(p, t, None, None, None, a)

DeletePost ==
    \E p \in PostIds : delete_post(p)

GetAllPosts ==
    \E pt \in {None, Some("resource")}, l \in {1, 50} :
        get_all_posts(pt, None, l)

NextPosts ==
    \/ CreatePost
    \/ UpdatePost
    \/ DeletePost
    \/ GetAllPosts

SpecPosts == Init /\ [][NextPosts]_vars

----------------------------------------------------------------------------
(* Tutors and tutor requests: schemas.py and routes/tutors.py.  A dict is  *)
(* a set of <<key, value>> pairs; a number is an integer.                   *)

MaxRows == 2

\* An insert or update the store refuses (a unique column taken): the
\* exception is not caught by the handler
InternalError == HTTPException(500, "Internal Server Error", FALSE)

\* TutorRequestBase.subject: Field(min_length=2, max_length=100),
\* validate_subject
TutorRequestBase_validate_subject(v) ==
    IF Len(v) < 2 \/ Len(v) > 100 THEN Invalid
    ELSE Valid(sanitize_string(v, 100))

\* TutorRequestBase.description: Field(None, max_length=2000),
\* validate_description
TutorRequestBase_validate_description(v) ==
    IF v = None THEN Valid(None)
    ELSE IF Len(v[1]) > 2000 THEN Invalid
    ELSE IF v[1] # <<>> THEN Valid(Some(sanitize_string(v[1], 2000)))
    ELSE Valid(v)

\* TutorRequestBase.preferred_schedule: Field(None, max_length=200),
\* validate_preferred_schedule
TutorRequestBase_validate_preferred_schedule(v) ==
    IF v = None THEN Valid(None)
    ELSE IF Len(v[1]) > 200 THEN Invalid
    ELSE IF v[1] # <<>> THEN Valid(Some(sanitize_string(v[1], 200)))
    ELSE Valid(v)

\* TutorRequestCreate.validate_student_id
TutorRequestCreate_validate_student_id(v) == validate_uuid(v)

\* models.TutorRequest: the column defaults of a new row
TutorRequestRow(id, data) ==
    [id |-> id, student_id |-> data.student_id, subject |-> data.subject,
     description |-> data.description,
     preferred_schedule |-> data.preferred_schedule, status |-> "pending",
     matched_tutor_id |-> None]

\* POST /api/tutors/requests
create_tutor_request(subject, description, preferred_schedule, student_id) ==
    LET s == TutorRequestBase_validate_subject(subject)
        d == TutorRequestBase_validate_description(description)
        p == TutorRequestBase_validate_preferred_schedule(preferred_schedule)
        u == TutorRequestCreate_validate_student_id(student_id)
        arg == [subject |-> subject]
    IN IF ~(s.ok /\ d.ok /\ p.ok /\ u.ok)
       THEN /\ resp' = Raised("create_tutor_request", arg, None,
                              ValidationError, FALSE)
            /\ UNCHANGED <<users, issued, now, tables, calls>>
       ELSE LET data == [student_id |-> u.v, subject |-> s.v,
                         description |-> d.v, preferred_schedule |-> p.v]
                row == TutorRequestRow(NewId(tables.tutor_requests), data)
            IN /\ Len(tables.tutor_requests) < MaxRows
               /\ tables' = [tables EXCEPT !.tutor_requests = Append(@, row)]
               /\ resp' = Returned("create_tutor_request", arg, None,
                                   [success |-> TRUE, data |-> row])
               /\ UNCHANGED <<users, issued, now, calls>>

\* for subject in v[:20]: the sanitized subjects of two characters or more
RECURSIVE SanitizedSubjects(_)
SanitizedSubjects(v) ==
    IF v = <<>> THEN <<>>
    ELSE LET subject == sanitize_string(Head(v), 100) IN
         IF Len(subject) >= 2
         THEN <<subject>> \o SanitizedSubjects(Tail(v))
         ELSE SanitizedSubjects(Tail(v))

\* TutorBase.validate_subjects
TutorBase_validate_subjects(v) == Valid(SanitizedSubjects(Truncate(v, 20)))

\* TutorBase.bio and TutorUpdate.bio: Field(None, max_length=2000),
\* validate_bio
TutorBase_validate_bio(v) ==
    IF v = None THEN Valid(None)
    ELSE IF Len(v[1]) > 2000 THEN Invalid
    ELSE IF v[1] # <<>> THEN Valid(Some(sanitize_string(v[1], 2000)))
    ELSE Valid(v)

\* TutorBase.hourly_rate and TutorUpdate.hourly_rate:
\* Field(None, ge=0, le=10000)
TutorBase_validate_hourly_rate(v) ==
    IF v = None THEN Valid(None)
    ELSE IF v[1] < 0 \/ v[1] > 10000 THEN Invalid
    ELSE Valid(v)

\* TutorBase.validate_contact_email and TutorUpdate.validate_contact_email
TutorBase_validate_contact_email(v) ==
    IF v # None /\ v[1] # <<>>
    THEN LET e == lower(strip(v[1])) IN
         IF EmailRegexMatch(e) THEN Valid(Some(e)) ELSE Invalid
    ELSE Valid(v)

\* TutorBase.validate_booking_link and TutorUpdate.validate_booking_link
TutorBase_validate_booking_link(v) ==
    IF v # None /\ v[1] # <<>>
    THEN LET u == validate_url(v[1]) IN
         IF u.ok THEN Valid(Some(u.v)) ELSE Invalid
    ELSE Valid(v)

\* TutorCreate.validate_user_id
TutorCreate_validate_user_id(v) == validate_uuid(v)

\* TutorUpdate.validate_subjects
TutorUpdate_validate_subjects(v) ==
    IF v = None THEN Valid(None)
    ELSE Valid(Some(SanitizedSubjects(Truncate(v[1], 20))))

\* models.Tutor: the column defaults of a new row
TutorRow(id, data) ==
    [id |-> id, user_id |-> data.user_id, subjects |-> data.subjects,
     bio |-> data.bio, hourly_rate |-> data.hourly_rate,
     availability |-> data.availability, rating |-> 0, total_reviews |-> 0,
     contact_email |-> data.contact_email,
     booking_link |-> data.booking_link, is_available |-> TRUE]

\* table.select("*").eq("user_id", v)
SelectByUserId(tbl, v) == SelectSeq(tbl, LAMBDA r : r.user_id = v)

\* POST /api/tutors
create_tutor(user_id, subjects, bio, hourly_rate, availability, contact_email, booking_link) ==
    LET u == TutorCreate_validate_user_id(user_id)
        s == TutorBase_validate_subjects(subjects)
        b == TutorBase_validate_bio(bio)
        h == TutorBase_validate_hourly_rate(hourly_rate)
        e == TutorBase_validate_contact_email(contact_email)
        l == TutorBase_validate_booking_link(booking_link)
        arg == [user_id |-> user_id, hourly_rate |-> hourly_rate]
    IN IF ~(u.ok /\ s.ok /\ b.ok /\ h.ok /\ e.ok /\ l.ok)
       THEN /\ resp' = Raised("create_tutor", arg, None, ValidationError, FALSE)
            /\ UNCHANGED <<users, issued, now, tables, calls>>
       ELSE IF SelectByUserId(tables.tutors, u.v) # <<>>
       THEN /\ resp' = Raised("create_tutor", arg, None, InternalError, TRUE)
            /\ UNCHANGED <<users, issued, now, tables, calls>>
       ELSE LET data == [user_id |-> u.v, subjects |-> s.v, bio |-> b.v,
                         hourly_rate |-> h.v, availability |-> availability,
                         contact_email |-> e.v, booking_link |-> l.v]
                row == TutorRow(NewId(tables.tutors), data)
            IN /\ Len(tables.tutors) < MaxRows
               /\ tables' = [tables EXCEPT !.tutors = Append(@, row)]
               /\ resp' = Returned("create_tutor", arg, None,
                                   [success |-> TRUE, data |-> row])
               /\ UNCHANGED <<users, issued, now, calls>>

\* every field of the body written, the absent ones as null
UpdateTutorRow_overwrite(row, subjects, bio, hourly_rate, availability, contact_email, booking_link, is_available) ==
    [row EXCEPT !.subjects = IF subjects # None THEN subjects[1] ELSE @,
                !.bio = bio,
                !.hourly_rate = hourly_rate,
                !.availability =
                    IF availability # None THEN availability[1] ELSE @,
                !.contact_email = contact_email,
                !.booking_link = booking_link,
                !.is_available = IF is_available # None THEN is_available[1] ELSE @]

\* table.update(update_data).eq("id", tutor_id): a field that is None is not
\* in update_data
UpdateTutorRow(row, subjects, bio, hourly_rate, availability, contact_email, booking_link, is_available) ==
    [row EXCEPT !.subjects = IF subjects # None THEN subjects[1] ELSE @,
                !.bio = IF bio # None THEN bio ELSE @,
                !.hourly_rate = IF hourly_rate # None THEN hourly_rate ELSE @,
                !.availability =
                    IF availability # None THEN availability[1] ELSE @,
                !.contact_email =
                    IF contact_email # None THEN contact_email ELSE @,
                !.booking_link = IF booking_link # None THEN booking_link ELSE @,
                !.is_available = IF is_available # None THEN is_available[1] ELSE @]

\* PATCH /api/tutors/{tutor_id}
update_tutor(tutor_id, subjects, bio, hourly_rate, availability, contact_email, booking_link, is_available) ==
    LET s == TutorUpdate_validate_subjects(subjects)
        b == TutorBase_validate_bio(bio)
        h == TutorBase_validate_hourly_rate(hourly_rate)
        e == TutorBase_validate_contact_email(contact_email)
        l == TutorBase_validate_booking_link(booking_link)
        arg == [id |-> tutor_id, subjects |-> subjects, bio |-> bio,
                hourly_rate |-> hourly_rate, availability |-> availability,
                contact_email |-> contact_email,
                booking_link |-> booking_link, is_available |-> is_available]
    IN IF ~(s.ok /\ b.ok /\ h.ok /\ e.ok /\ l.ok)
       THEN /\ resp' = Raised("update_tutor", arg, None, ValidationError, FALSE)
            /\ UNCHANGED <<users, issued, now, tables, calls>>
       ELSE IF s.v = None /\ b.v = None /\ h.v = None /\ availability = None
               /\ e.v = None /\ l.v = None /\ is_available = None
       THEN /\ resp' = Raised("update_tutor", arg, None,
                              HTTPException(400, "No fields to update", FALSE), TRUE)
            /\ UNCHANGED <<users, issued, now, tables, calls>>
       ELSE IF SelectById(tables.tutors, tutor_id) = <<>>
       THEN /\ resp' = Raised("update_tutor", arg, None,
                              HTTPException(404, "Tutor not found", FALSE), TRUE)
            /\ UNCHANGED <<users, issued, now, tables, calls>>
       ELSE LET new(row) == UpdateTutorRow(row, s.v, b.v, h.v, availability,
                                           e.v, l.v, is_available)
            IN /\ tables' = [tables EXCEPT !.tutors =
                                [i \in 1..Len(@) |->
                                    IF @[i].id = tutor_id THEN new(@[i])
                                    ELSE @[i]]]
               /\ resp' = Returned("update_tutor", arg, None,
                             [success |-> TRUE,
                              data |-> new(SelectById(tables.tutors, tutor_id)[1])])
               /\ UNCHANGED <<users, issued, now, calls>>

----------------------------------------------------------------------------
(* Categories and resources: schemas.py, routes/categories.py and          *)
(* routes/resources.py                                                      *)

\* CategoryBase.validate_name
CategoryBase_validate_name(v) ==
    LET t == sanitize_string(v, 100) IN
    IF Len(t) < 2 THEN Invalid ELSE Valid(t)

\* CategoryBase.validate_description
CategoryBase_validate_description(v) ==
    IF v # None /\ v[1] # <<>> THEN Valid(Some(sanitize_string(v[1], 500)))
    ELSE Valid(v)

\* CategoryBase.validate_icon: re.match(r'^[a-zA-Z0-9\-_]+$', v.strip()[:50])
CategoryBase_validate_icon(v) ==
    IF v # None /\ v[1] # <<>>
    THEN LET i == Truncate(strip(v[1]), 50) IN
         IF i # <<>> /\ AllIn(i, Letters \cup Digits \cup {"-", "_"})
         THEN Valid(Some(i))
         ELSE Invalid
    ELSE Valid(v)

\* table.select("id").eq("name", v)
SelectByName(tbl, v) == SelectSeq(tbl, LAMBDA r : r.name = v)

\* the row written before the body is validated
create_category_unchecked(name, description, icon) ==
    LET n == CategoryBase_validate_name(name)
        d == CategoryBase_validate_description(description)
        i == CategoryBase_validate_icon(icon)
        arg == [name |-> name, icon |-> icon]
        row == [id |-> NewId(tables.categories), name |-> name,
                description |-> description, icon |-> icon]
    IN /\ Len(tables.categories) < MaxRows
       /\ tables' = [tables EXCEPT !.categories = Append(@, row)]
       /\ resp' = IF n.ok /\ d.ok /\ i.ok
                  THEN Returned("create_category", arg, None,
                                [success |-> TRUE, data |-> row])
                  ELSE Raised("create_category", arg, None, ValidationError, FALSE)
       /\ UNCHANGED <<users, issued, now, calls>>

\* POST /api/categories
create_category(name, description, icon) ==
    LET n == CategoryBase_validate_name(name)
        d == CategoryBase_validate_description(description)
        i == CategoryBase_validate_icon(icon)
        arg == [name |-> name, icon |-> icon]
    IN IF ~(n.ok /\ d.ok /\ i.ok)
       THEN /\ resp' = Raised("create_category", arg, None, ValidationError, FALSE)
            /\ UNCHANGED <<users, issued, now, tables, calls>>
       ELSE IF SelectByName(tables.categories, n.v) # <<>>
       THEN /\ resp' = Raised("create_category", arg, None,
                              HTTPException(400, "Category already exists", FALSE),
                              TRUE)
            /\ UNCHANGED <<users, issued, now, tables, calls>>
       ELSE LET row == [id |-> NewId(tables.categories), name |-> n.v,
                        description |-> d.v, icon |-> i.v]
            IN /\ Len(tables.categories) < MaxRows
               /\ tables' = [tables EXCEPT !.categories = Append(@, row)]
               /\ resp' = Returned("create_category", arg, None,
                                   [success |-> TRUE, data |-> row])
               /\ UNCHANGED <<users, issued, now, calls>>

\* ResourceBase.description: Field(None, max_length=2000),
\* validate_description
ResourceBase_validate_description(v) ==
    IF v = None THEN Valid(None)
    ELSE IF Len(v[1]) > 2000 THEN Invalid
    ELSE IF v[1] # <<>> THEN Valid(Some(sanitize_string(v[1], 2000)))
    ELSE Valid(v)

\* ResourceBase.validate_category_id
ResourceBase_validate_category_id(v) == validate_uuid(v)

\* ResourceBase.validate_file_url
ResourceBase_validate_file_url(v) ==
    IF v # None /\ v[1] # <<>>
    THEN LET u == validate_url(v[1]) IN
         IF u.ok THEN Valid(Some(u.v)) ELSE Invalid
    ELSE Valid(v)

\* ResourceBase.validate_file_type
ResourceBase_validate_file_type(v) ==
    IF v # None /\ v[1] # ""
    THEN IF v[1] \notin {"pdf", "video", "notes", "past_paper", "link", "other"}
         THEN Invalid
         ELSE Valid(v)
    ELSE Valid(v)

\* re.sub(r'[^a-zA-Z0-9\-_\s]', '', tag.strip().lower()[:50])
ResourceTag(tag) ==
    SelectSeq(Truncate(lower(strip(tag)), 50),
              LAMBDA c : c \in TagChars \cup UpperChars)

\* ResourceBase.validate_tags: list(set(sanitized)), as a set
ResourceBase_validate_tags(v) ==
    LET first == Truncate(v, 10) IN
    Valid({ ResourceTag(first[i]) :
              i \in { j \in 1..Len(first) : Len(ResourceTag(first[j])) >= 2 } })

\* ResourceCreate.validate_author_id
ResourceCreate_validate_author_id(v) == validate_uuid(v)

\* models.Resource: the column defaults of a new row
ResourceRow(id, data) ==
    [id |-> id, title |-> data.title, description |-> data.description,
     category_id |-> data.category_id, file_url |-> data.file_url,
     file_type |-> data.file_type, tags |-> data.tags,
     author_id |-> data.author_id, download_count |-> 0, view_count |-> 0]

\* POST /api/resources
create_resource(title, description, category_id, file_url, file_type, tags, author_id) ==
    LET t == ResourceBase_validate_title(title)
        d == ResourceBase_validate_description(description)
        c == ResourceBase_validate_category_id(category_id)
        u == ResourceBase_validate_file_url(file_url)
        f == ResourceBase_validate_file_type(file_type)
        g == ResourceBase_validate_tags(tags)
        a == ResourceCreate_validate_author_id(author_id)
        arg == [title |-> title, file_type |-> file_type]
    IN IF ~(t.ok /\ d.ok /\ c.ok /\ u.ok /\ f.ok /\ g.ok /\ a.ok)
       THEN /\ resp' = Raised("create_resource", arg, None, ValidationError, FALSE)
            /\ UNCHANGED <<users, issued, now, tables, calls>>
       ELSE LET data == [title |-> t.v, description |-> d.v, category_id |-> c.v,
                         file_url |-> u.v, file_type |-> f.v, tags |-> g.v,
                         author_id |-> a.v]
                row == ResourceRow(NewId(tables.resources), data)
            IN /\ Len(tables.resources) < MaxRows
               /\ tables' = [tables EXCEPT !.resources = Append(@, row)]
               /\ resp' = Returned("create_resource", arg, None,
                                   [success |-> TRUE, data |-> row])
               /\ UNCHANGED <<users, issued, now, calls>>

----------------------------------------------------------------------------
(* The create routes of every table, over a store of at most MaxRows rows  *)
(* in all                                                                   *)

StoreSize ==
    Len(users) + Len(tables.resource_requests) + Len(tables.posts)
               + Len(tables.tutors) + Len(tables.tutor_requests)
               + Len(tables.categories) + Len(tables.resources)

ContentUser == UuidOf("a")

ContentSubjects == { <<"M","a","t","h">>, <<" "," ">>, <<"M">> }

ContentNames == { <<"M","a","t","h">>, <<"M">> }

ContentIcons == { None, Some(<<"a"," ","b">>) }

ContentRates == { Some(50), Some(0 - 1) }

ContentRegister ==
    /\ StoreSize < MaxRows
    /\ \E e \in { <<"a","@","b",".","c","o">>, <<"a","@","b">> },
          p \in { <<"A","b","c","d","e","f","g","1">>, <<"a","b","c">> }
          : register(e, p, <<"A","n","n">>, "student", 1)
    /\ UNCHANGED <<tables, calls>>

ContentCreateUser ==
    /\ StoreSize < MaxRows
    /\ \E e \in { <<"c","@","d",".","c","o">>, <<"a","@","b">> },
          n \in RawNames
          : create_user(e, n, "student", None)
    /\ UNCHANGED <<tables, calls>>

ContentCreateCategory ==
    /\ StoreSize < MaxRows
    /\ \E n \in ContentNames, i \in ContentIcons : create_category(n, None, i)

ContentCreateResource ==
    /\ StoreSize < MaxRows
    /\ \E t \in RequestTopics, f \in { Some("pdf"), Some("exe") }
          : create_resource(t, None, ContentUser, None, f, <<>>, ContentUser)

ContentCreateRequest ==
    /\ StoreSize < MaxRows
    /\ \E t \in RequestTopics, f \in {"pdf", "exe"}
          : create_request(t, Rep("d", 10), None, f, ContentUser)

ContentCreateTutor ==
    /\ StoreSize < MaxRows
    /\ \E u \in RequestUsers, h \in ContentRates
          : create_tutor(u, << <<"M","a","t","h">> >>, None, h, {}, None, None)

ContentCreateTutorRequest ==
    /\ StoreSize < MaxRows
    /\ \E s \in ContentSubjects
          : create_tutor_request(s, None, None, ContentUser)

ContentCreatePost ==
    /\ StoreSize < MaxRows
    /\ \E t \in PostTitles, pt \in PostTypes
          : create_post(t, PostDescription, pt, None, ContentUser, <<>>)

NextCreate ==
    \/ ContentRegister
    \/ ContentCreateUser
    \/ ContentCreateCategory
    \/ ContentCreateResource
    \/ ContentCreateRequest
    \/ ContentCreateTutor
    \/ ContentCreateTutorRequest
    \/ ContentCreatePost

SpecCreate == Init /\ [][NextCreate]_vars

----------------------------------------------------------------------------
(* The PATCH routes of posts, resource requests and tutors, on rows made   *)
(* by the create routes                                                     *)

ContentIds == 1..MaxRows

\* A category_id of a PATCH body: absent, or the empty string
PatchCategories == { None, Some(<<>>) }

\* A topic of a PATCH body: absent, or three spaces
ContentPatchTopics == { None, Some(<<" "," "," ">>) }

PatchCreatePost ==
    /\ StoreSize < MaxRows
    /\ create_post(<<"H","e","l","l","o">>, PostDescription, "resource",
                   Some(UuidOf("a")), ContentUser, <<>>)

PatchCreateRequest ==
    /\ StoreSize < MaxRows
    /\ create_request(<<"a","b","c">>, Rep("d", 10), None, "pdf", ContentUser)

PatchCreateTutor ==
    /\ StoreSize < MaxRows
    /\ create_tutor(ContentUser, << <<"M","a","t","h">> >>, None, Some(50), {},
                    None, None)

ContentUpdatePost ==
    \E p \in ContentIds, t \in {None, Some(<<"W","o","r","l","d">>)},
       c \in PatchCategories
       : update_post(p, t, None, c, None, None)

ContentUpdateRequest ==
    \E r \in ContentIds, t \in ContentPatchTopics, f \in {None, Some("link")}
       : update_request(r, t, None, f)

ContentUpdateTutor ==
    \E t \in ContentIds, b \in {None, Some(<<>>)}, h \in {None, Some(60)}
       : update_tutor(t, None, b, h, None, None, None, None)

NextPatch ==
    \/ PatchCreatePost
    \/ PatchCreateRequest
    \/ PatchCreateTutor
    \/ ContentUpdatePost
    \/ ContentUpdateRequest
    \/ ContentUpdateTutor

SpecPatch == Init /\ [][NextPatch]_vars

----------------------------------------------------------------------------
(* Handlers that make two calls to the store run as two steps, and the     *)
(* handlers of other requests run between them: calls holds each started   *)
(* invocation with what its first store call returned (result) and whether *)
(* its second store call is still to come (pc "update" or "insert") or it  *)
(* has answered (pc "done").                                                *)

MaxCalls == 2

\* The next invocation, with the number that tells it from the others
NewCall(op, id, result, pc) ==
    [n |-> Cardinality(calls) + 1, op |-> op, id |-> id, result |-> result,
     pc |-> pc, status |-> 0]

\* The invocation c has answered with the given status
Answered(c, status) ==
    (calls \ {c}) \cup {[c EXCEPT !.pc = "done", !.status = status]}

\* table.update({column: value}).eq("id", id)
UpdateCount(tbl, id, column, value) ==
    [i \in 1..Len(tbl) |->
        IF tbl[i].id = id THEN [tbl[i] EXCEPT ![column] = value] ELSE tbl[i]]

\* POST /api/resources/{resource_id}/download, up to the answer of
\* select("download_count")
track_download_select(resource_id) ==
    LET result == SelectById(tables.resources, resource_id) IN
    IF result = <<>>
    THEN /\ resp' = Raised("track_download", [id |-> resource_id], None,
                           HTTPException(404, "Resource not found", FALSE), TRUE)
         /\ UNCHANGED <<users, issued, now, tables, calls>>
    ELSE /\ Cardinality(calls) < MaxCalls
         /\ calls' = calls \cup
                {NewCall("track_download", resource_id,
                         [download_count |-> result[1].download_count],
                         "update")}
         /\ UNCHANGED <<users, issued, now, tables, resp>>

\* POST /api/resources/{resource_id}/download, from the update to the answer
track_download_update(c) ==
    /\ c.op = "track_download" /\ c.pc = "update"
    /\ tables' = [tables EXCEPT !.resources =
                     UpdateCount(@, c.id, "download_count",
                                 c.result.download_count + 1)]
    /\ calls' = Answered(c, 200)
    /\ resp' = Returned("track_download", [id |-> c.id], None,
                        [success |-> TRUE, message |-> "Download tracked"])
    /\ UNCHANGED <<users, issued, now>>

\* GET /api/resources/{resource_id}, up to the answer of the select
get_resource_select(resource_id) ==
    LET result == SelectById(tables.resources, resource_id) IN
    IF result = <<>>
    THEN /\ resp' = Raised("get_resource", [id |-> resource_id], None,
                           HTTPException(404, "Resource not found", FALSE), TRUE)
         /\ UNCHANGED <<users, issued, now, tables, calls>>
    ELSE /\ Cardinality(calls) < MaxCalls
         /\ calls' = calls \cup
                {NewCall("get_resource", resource_id, result[1], "update")}
         /\ UNCHANGED <<users, issued, now, tables, resp>>

\* GET /api/resources/{resource_id}, from the update to the answer
get_resource_update(c) ==
    /\ c.op = "get_resource" /\ c.pc = "update"
    /\ tables' = [tables EXCEPT !.resources =
                     UpdateCount(@, c.id, "view_count", c.result.view_count + 1)]
    /\ calls' = Answered(c, 200)
    /\ resp' = Returned("get_resource", [id |-> c.id], None,
                        [success |-> TRUE, data |-> c.result])
    /\ UNCHANGED <<users, issued, now>>

CounterCreateResource ==
    create_resource(<<"a","b","c">>, None, ContentUser, None, Some("pdf"), <<>>,
                    ContentUser)

TrackDownloadSelect ==
    \E r \in 1..(MaxRows + 1) : track_download_select(r)

TrackDownloadUpdate ==
    \E c \in calls : track_download_update(c)

GetResourceSelect ==
    \E r \in 1..(MaxRows + 1) : get_resource_select(r)

GetResourceUpdate ==
    \E c \in calls : get_resource_update(c)

NextCounters ==
    \/ CounterCreateResource
    \/ TrackDownloadSelect
    \/ TrackDownloadUpdate
    \/ GetResourceSelect
    \/ GetResourceUpdate

SpecCounters == Init /\ [][NextCounters]_vars

----------------------------------------------------------------------------
(* Registration and POST /api/users as two steps each: the select of an    *)
(* existing row, then the insert                                            *)

\* table("users").insert(row) on a table whose email column is unique,
\* without the constraint: the row is always inserted
InsertUser_unconstrained(tbl, row) == [ok |-> TRUE, rows |-> Append(tbl, row)]

\* table("users").insert(row) on a table whose email column is unique: the
\* store refuses a row whose email is already in the table
InsertUser(tbl, row) ==
    IF SelectByEmail(tbl, row.email) # <<>>
    THEN [ok |-> FALSE, rows |-> tbl]
    ELSE [ok |-> TRUE, rows |-> Append(tbl, row)]

\* register, up to the answer of select("id").eq("email", email)
register_select(email, password, name, role, salt) ==
    LET e == RegisterEmail[email]
        p == RegisterPassword[password]
        n == RegisterName[name]
        r == RegisterRequest_validate_role(role)
    IN IF ~(e.ok /\ p.ok /\ n.ok /\ r.ok)
       THEN /\ resp' = Raised("register", None, None, ValidationError, FALSE)
            /\ UNCHANGED <<users, issued, now, tables, calls>>
       ELSE IF SelectByEmail(users, e.v) # <<>>
       THEN /\ resp' = Raised("register", e.v, None,
                              HTTPException(400, "Email already registered", FALSE),
                              TRUE)
            /\ UNCHANGED <<users, issued, now, tables, calls>>
       ELSE /\ Cardinality(calls) < MaxCalls
            /\ calls' = calls \cup
                   {NewCall("register", e.v,
                            [name |-> n.v, role |-> r.v,
                             password_hash |-> hash_password(p.v, salt)],
                            "insert")}
            /\ UNCHANGED <<users, issued, now, tables, resp>>

\* register, from the insert to the answer
register_insert(c) ==
    LET user == [id |-> NewId(users), email |-> c.id, name |-> c.result.name,
                 role |-> c.result.role, avatar_url |-> None,
                 password_hash |-> c.result.password_hash]
        result == InsertUser(users, user)
        access_token ==
            create_access_token([sub |-> user.id, email |-> user.email], None, now)
    IN /\ c.op = "register" /\ c.pc = "insert"
       /\ IF ~result.ok
          THEN /\ resp' = Raised("register", c.id, None, InternalError, TRUE)
               /\ calls' = Answered(c, 500)
               /\ UNCHANGED <<users, issued, now, tables>>
          ELSE /\ Len(users) < MaxUsers
               /\ users' = result.rows
               /\ issued' = issued \cup {access_token}
               /\ calls' = Answered(c, 200)
               /\ resp' = Returned("register", c.id, None,
                                   [access_token |-> access_token,
                                    token_type |-> "bearer",
                                    expires_in |-> ACCESS_TOKEN_EXPIRE_MINUTES * 60,
                                    user |-> Pop(user, "password_hash")])
               /\ UNCHANGED <<now, tables>>

\* POST /api/users, up to the answer of select("id").eq("email", email)
create_user_select(email, name, role, avatar_url) ==
    LET e == CreateEmail[email]
        n == CreateName[name]
        r == UserBase_validate_role(role)
        a == CreateAvatar[avatar_url]
    IN IF ~(e.ok /\ n.ok /\ r.ok /\ a.ok)
       THEN /\ resp' = Raised("create-user", None, None, ValidationError, FALSE)
            /\ UNCHANGED <<users, issued, now, tables, calls>>
       ELSE IF SelectByEmail(users, e.v) # <<>>
       THEN /\ resp' = Raised("create-user", None, None,
                              HTTPException(400, "User with this email already exists",
                                            FALSE), TRUE)
            /\ UNCHANGED <<users, issued, now, tables, calls>>
       ELSE /\ Cardinality(calls) < MaxCalls
            /\ calls' = calls \cup
                   {NewCall("create-user", e.v,
                            [name |-> n.v, role |-> r.v, avatar_url |-> a.v],
                            "insert")}
            /\ UNCHANGED <<users, issued, now, tables, resp>>

\* POST /api/users, from the insert to the answer
create_user_insert(c) ==
    LET row == [id |-> NewId(users), email |-> c.id, name |-> c.result.name,
                role |-> c.result.role, avatar_url |-> c.result.avatar_url,
                password_hash |-> NullHash]
        result == InsertUser(users, row)
    IN /\ c.op = "create-user" /\ c.pc = "insert"
       /\ IF ~result.ok
          THEN /\ resp' = Raised("create-user", None, None, InternalError, TRUE)
               /\ calls' = Answered(c, 500)
               /\ UNCHANGED <<users, issued, now, tables>>
          ELSE /\ Len(users) < MaxUsers
               /\ users' = result.rows
               /\ calls' = Answered(c, 200)
               /\ resp' = Returned("create-user", None, None,
                                   [success |-> TRUE, data |-> row])
               /\ UNCHANGED <<issued, now, tables>>

SignupEmails == RawEmails

RegisterSelect ==
    \E e \in SignupEmails :
        register_select(e, <<"A","b","c","d","e","f","g","1">>, <<"A","n","n">>,
                        "student", 1)

RegisterInsert ==
    \E c \in calls : register_insert(c)

CreateUserSelect ==
    \E e \in SignupEmails : create_user_select(e, <<"A","n","n">>, "student", None)

CreateUserInsert ==
    \E c \in calls : create_user_insert(c)

NextSignup ==
    \/ RegisterSelect
    \/ RegisterInsert
    \/ CreateUserSelect
    \/ CreateUserInsert

SpecSignup == Init /\ [][NextSignup]_vars

----------------------------------------------------------------------------
(* Properties *)

\* What the client sees of a response
Response(r) == [status |-> r.status, detail |-> r.detail, www |-> r.www,
                body |-> r.body]

\* The user objects in the payload of a response of the user-returning routes
ResponseUsers(r) ==
    IF r.status # 200 THEN {}
    ELSE IF r.op \in {"register", "login", "verify"} THEN {r.body.user}
    ELSE IF r.op \in {"me", "user", "user-by-email"} THEN {r.body.data}
    ELSE IF r.op = "users" THEN {r.body.data[i] : i \in 1..Len(r.body.data)}
    ELSE {}

\* C1: no response payload of register, login, GET /api/auth/me,
\* GET /api/auth/verify, GET /api/users, GET /api/users/{id} or
\* GET /api/users/email/{email} contains a user's password hash.
C1_NoPasswordHashInResponse ==
    \A u \in ResponseUsers(resp) :
        "password_hash" \in DOMAIN u => u["password_hash"] = NullHash

\* The token is a JWT signed by the server key over the payload it carries
WellSigned(tok) ==
    /\ tok.kind = "jwt"
    /\ tok.sig.key = SECRET_KEY
    /\ tok.sig.alg = ALGORITHM
    /\ tok.sig.over = tok.payload

Expired(tok, t) == "exp" \in DOMAIN tok.payload /\ t > tok.payload["exp"]

HasSub(tok) == "sub" \in DOMAIN tok.payload /\ tok.payload["sub"] # EmptyId

RowsOf(tok) == {i \in 1..Len(users) : users[i].id = tok.payload["sub"]}

\* The four conditions under which a token authenticates a request
Authenticates(tok) ==
    /\ WellSigned(tok)
    /\ ~Expired(tok, now)
    /\ HasSub(tok)
    /\ RowsOf(tok) # {}

UserOf(tok) == users[CHOOSE i \in RowsOf(tok) : TRUE]

\* C2: a request reaches the handler of a protected endpoint only if its
\* token's signature verifies under the server key, the time is not past the
\* token's exp, the token has a sub and a user row with id = sub exists, and
\* then with that row; in every other case it is answered 401 and the handler
\* body does not run.
C2_AuthenticatedOnlyIf ==
    resp.op = "me" =>
        /\ resp.ran <=> Authenticates(resp.cred[1])
        /\ resp.ran => resp.status = 200 /\ resp.body.data = UserOf(resp.cred[1])
        /\ ~resp.ran => resp.status = 401

\* An accepted request whose token is presented at its expiry instant
C2_Witness ==
    /\ resp.op = "me"
    /\ resp.ran
    /\ now > 0
    /\ resp.cred[1].payload["exp"] = now

\* A rejected request for each cause other than the signature
C2_WitnessRejected ==
    /\ resp.op = "me"
    /\ ~resp.ran
    /\ WellSigned(resp.cred[1])
    /\ ~Expired(resp.cred[1], now)

\* Necessary for a string to be an output of sanitize_string: it is stripped
\* and html.escape has left no markup or quote character, and no NUL
SanitizerOutput(s) ==
    /\ s = strip(s)
    /\ \A i \in 1..Len(s) : s[i] \notin {"<", ">", "\"", "'", NUL}

\* C3: every free-text field held in storage is an output of the sanitizer,
\* including the values written by PATCH /api/users/{id} and by register.
C3_StoredTextSanitized ==
    \A i \in 1..Len(users) : SanitizerOutput(users[i].name)

\* C4: a register that finds a row with its e-mail is answered 400 'Email
\* already registered' and leaves the users table as it was, and no step
\* removes a row or changes its e-mail; so once an e-mail is registered every
\* later register of it fails.
C4_DuplicateEmailRejected ==
    [][ /\ \A i \in 1..Len(users) :
              i <= Len(users') /\ users'[i].email = users[i].email
        /\ ( /\ resp'.op = "register"
              /\ resp'.ran
              /\ \E i \in 1..Len(users) : users[i].email = resp'.arg )
            => /\ resp'.status = 400
               /\ resp'.detail = "Email already registered"
               /\ users' = users
      ]_vars

\* A second register of an e-mail, after time has passed
C4_Witness ==
    /\ resp.op = "register"
    /\ resp.status = 400
    /\ resp.detail = "Email already registered"
    /\ now > 0

\* The response of a failed login
InvalidCredentials ==
    [status |-> 401, detail |-> "Invalid email or password", www |-> FALSE,
     body |-> NoBody]

NoSuchEmail(e) == \A i \in 1..Len(users) : users[i].email # e

WrongPassword(e, p) ==
    \E i \in 1..Len(users) : users[i].email = e /\ users[i].password_hash.secret # p

\* C5: a login with a registered e-mail and a wrong password and a login with
\* an e-mail that has no row get the same response, 401 'Invalid email or
\* password', and neither changes the store.
C5_LoginFailuresIdentical ==
    [][ ( /\ resp'.op = "login"
          /\ \/ NoSuchEmail(resp'.arg.email)
             \/ WrongPassword(resp'.arg.email, resp'.arg.password) )
        => /\ Response(resp') = InvalidCredentials
           /\ users' = users
           /\ issued' = issued
      ]_vars

\* A failed login for an e-mail registered with a password
C5_Witness ==
    /\ resp.op = "login"
    /\ resp.status = 401
    /\ \E i \in 1..Len(users) :
          /\ users[i].email = resp.arg.email
          /\ users[i].password_hash # NullHash

\* The payload agrees with the claim set on the keys in keys and has exp, iat
RoundTrip(data, keys, d) ==
    /\ d.ok
    /\ {"exp", "iat"} \subseteq DOMAIN d.payload
    /\ \A k \in keys : k \in DOMAIN d.payload /\ d.payload[k] = data[k]

MintedFrom(tok, data, expires_delta) ==
    tok = create_access_token(data, expires_delta, tok.payload["iat"])

Unauthorized(d) == ~d.ok /\ d.status = 401

\* C7: at every time after the expiry instant of an issued token decode_token
\* rejects it with 401, and no step makes it acceptable again.
C7_ExpiredStaysRejected ==
    [][ \A tok \in issued :
            Expired(tok, now)
            => /\ Unauthorized(decode_token(tok, now))
               /\ Unauthorized(decode_token(tok, now'))
      ]_vars

\* An issued token presented to decode_token after its expiry instant
C7_Witness ==
    /\ resp.op = "decode_token"
    /\ resp.cred[1] \in issued
    /\ Expired(resp.cred[1], now)
    /\ resp.status = 401

ProtectedOps == {"me", "change-password", "logout", "verify"}

Malformed(tok) == tok.kind # "jwt"

InvalidSignature(tok) == tok.kind = "jwt" /\ ~WellSigned(tok)

\* The response to a token that does not decode
InvalidToken ==
    [status |-> 401, detail |-> "Invalid or expired token", www |-> TRUE,
     body |-> NoBody]

\* C8: on every protected endpoint a malformed token, an expired token and a
\* token with an invalid signature get the same response: 401, the same
\* detail and the same headers.
C8_TokenFailuresIdentical ==
    (resp.op \in ProtectedOps /\ resp.cred # None) =>
        LET tok == resp.cred[1] IN
        (Malformed(tok) \/ InvalidSignature(tok) \/ (WellSigned(tok) /\ Expired(tok, now)))
        => Response(resp) = InvalidToken /\ ~resp.ran

\* An expired token of a registered user, rejected
C8_Witness ==
    /\ resp.op = "verify"
    /\ WellSigned(resp.cred[1])
    /\ Expired(resp.cred[1], now)
    /\ resp.status = 401

\* C9: require_role(allowed_roles) returns the user iff the token
\* authenticates and the user's role is in allowed_roles, signals 403 iff the
\* token authenticates and the role is not in allowed_roles, and answers 401
\* to a token that does not authenticate, whatever allowed_roles is.
C9_RequireRole ==
    resp.op = "require_role" =>
        LET tok == resp.cred[1]
            allowed_roles == resp.arg
        IN /\ resp.status = 200
                <=> (Authenticates(tok) /\ UserOf(tok).role \in allowed_roles)
           /\ resp.status = 200 => resp.body.user = UserOf(tok)
           /\ resp.status = 403
                <=> (Authenticates(tok) /\ UserOf(tok).role \notin allowed_roles)
           /\ ~Authenticates(tok) => resp.status = 401

\* An authenticated user whose role is not allowed
C9_Witness ==
    /\ resp.op = "require_role"
    /\ resp.status = 403
    /\ resp.detail = "Insufficient permissions"

\* C10: get_current_user_optional returns null when no credentials are
\* presented or the token does not authenticate, returns the user record when
\* it does, and never raises.
C10_OptionalNeverRaises ==
    resp.op = "optional" =>
        /\ resp.status = 200
        /\ resp.ran
        /\ (resp.cred = None \/ ~Authenticates(resp.cred[1]))
               => resp.body.user = None
        /\ (resp.cred # None /\ Authenticates(resp.cred[1]))
               => resp.body.user = Some(UserOf(resp.cred[1]))

\* A well-signed, unexpired token whose sub has no row gives null
C10_Witness ==
    /\ resp.op = "optional"
    /\ resp.cred # None
    /\ WellSigned(resp.cred[1])
    /\ ~Expired(resp.cred[1], now)
    /\ HasSub(resp.cred[1])
    /\ resp.body.user = None

\* The hash is the bcrypt hash of a password with the same first 72 bytes as p
PasswordMatches(p, h) ==
    /\ h.alg = "bcrypt"
    /\ h.secret = SubSeq(p, 1, Min(Len(p), 72))

\* C11: a change_password whose current password does not verify against the
\* stored hash fails with 401 and leaves every stored hash as it was; one that
\* succeeds changes the password_hash of the row with id = user_id and
\* nothing else in the store.
C11_ChangePasswordFrame ==
    [][ (resp'.op = "change-password" /\ resp'.ran) =>
          LET a == resp'.arg
              rows == {i \in 1..Len(users) : users[i].id = a.user_id}
          IN /\ ( /\ rows # {}
                  /\ \A i \in rows :
                        ~PasswordMatches(a.current_password, users[i].password_hash) )
                => resp'.status = 401 /\ users' = users
             /\ resp'.status # 200 => users' = users
             /\ resp'.status = 200 =>
                  /\ Len(users') = Len(users)
                  /\ \A i \in 1..Len(users) :
                        IF i \in rows
                        THEN /\ users'[i] = [users[i] EXCEPT !.password_hash =
                                                users'[i].password_hash]
                             /\ PasswordMatches(a.new_password,
                                                users'[i].password_hash)
                        ELSE users'[i] = users[i]
                  /\ issued' = issued
                  /\ tables' = tables
      ]_vars

\* A password change refused for a wrong current password, with two users
C11_Witness ==
    /\ resp.op = "change-password"
    /\ resp.status = 401
    /\ resp.detail = "Current password is incorrect"
    /\ Len(users) = 2

\* A password change that succeeded, with two users
C11_WitnessChanged ==
    /\ resp.op = "change-password"
    /\ resp.status = 200
    /\ resp.arg.new_password # resp.arg.current_password
    /\ Len(users) = 2

\* The last call was a successful change_password to a different password
PasswordChanged ==
    /\ resp.op = "change-password"
    /\ resp.status = 200
    /\ resp.arg.new_password # resp.arg.current_password

\* C12: after change_password(user, old, new) has succeeded with new # old, a
\* login with the user's e-mail and old fails with 401 and one with new
\* succeeds; stated of the login that follows the change.
C12_OldPasswordRejected ==
    [][ ( /\ PasswordChanged
          /\ resp'.op = "login"
          /\ \E i \in 1..Len(users) :
                users[i].id = resp.arg.user_id /\ users[i].email = resp'.arg.email )
        => /\ resp'.arg.password = resp.arg.current_password => resp'.status = 401
           /\ resp'.arg.password = resp.arg.new_password => resp'.status = 200
      ]_vars

\* C13: a token accepted before a logout, a password change or any other
\* step is accepted after it, unless it has expired: no step revokes a token.
C13_NoRevocation ==
    [][ /\ issued \subseteq issued'
        /\ \A tok \in Presentable :
              (Authenticates(tok) /\ ~Expired(tok, now'))
              => LET r == get_current_user(tok, now', users') IN
                 r.ok /\ r.user.id = tok.payload["sub"]
      ]_vars

\* A password change made with a token that is still accepted after it
C13_Witness ==
    /\ PasswordChanged
    /\ Authenticates(resp.cred[1])

\* A logout made with a token that is still accepted after it
C13_WitnessLogout ==
    /\ resp.op = "logout"
    /\ resp.status = 200
    /\ Authenticates(resp.cred[1])

\* The trimmed, lower-cased form of each e-mail spelling
Canonical == [e \in RawEmails |-> lower(strip(e))]

\* C16: every stored e-mail equals its own trimmed, lower-cased value; a
\* login with any spelling of a registered e-mail and the registered password
\* succeeds, and a register with any spelling of a stored e-mail is rejected
\* as a duplicate.
C16_CanonicalEmail ==
    [][ /\ \A i \in 1..Len(users') :
              users'[i].email = lower(strip(users'[i].email))
        /\ \A e \in AccountLoginEmails, p \in AccountPasswords :
              ( /\ login(e, p)
                /\ \E i \in 1..Len(users) :
                      /\ users[i].email = Canonical[e]
                      /\ PasswordMatches(p, users[i].password_hash) )
              => resp'.status = 200
        /\ \A e \in AccountEmails, p \in AccountPasswords, s \in Salts :
              ( /\ register(e, p, AccountName, "student", s)
                /\ \E i \in 1..Len(users) : users[i].email = Canonical[e] )
              => resp'.status = 400 /\ users' = users
      ]_vars

\* A login that succeeded with the spelling " A@b.co" of a stored a@b.co
C16_Witness ==
    /\ resp.op = "login"
    /\ resp.status = 200
    /\ resp.arg.email = <<"a","@","b",".","c","o">>

\* The constraint a password error message names does not hold of v
ViolatedConstraint(v, msg) ==
    CASE msg = "Password must be at least 8 characters" -> Len(v) < 8
      [] msg = "Password too long" -> Len(v) > 128
      [] msg = "Password must contain at least one uppercase letter" ->
            \A i \in 1..Len(v) : v[i] \notin UpperChars
      [] msg = "Password must contain at least one lowercase letter" ->
            \A i \in 1..Len(v) : v[i] \notin LowerChars
      [] msg = "Password must contain at least one number" ->
            \A i \in 1..Len(v) : v[i] \notin RegexDigits
      [] OTHER -> FALSE

\* The letters that are upper-case, among the characters of the inputs
UpperCaseLetters == UpperChars \cup {CapitalEAcute}

C14_WitnessNoAsciiUpper ==
    /\ resp.op = "validate_password"
    /\ \E i \in 1..Len(resp.arg) : resp.arg[i] = CapitalEAcute
    /\ resp.body.register =
          ValueError("Password must contain at least one uppercase letter")

\* A password of 129 characters with all classes, rejected as too long
C14_WitnessRejected ==
    /\ resp.op = "validate_password"
    /\ Len(resp.arg) = 129
    /\ resp.body.change = ValueError("Password too long")

WordChars == Letters \cup Digits \cup {"_"}

\* on<name>= : an inline event-handler attribute
HasEventHandler(u) ==
    \E i \in 1..Len(u) : \E j \in (i + 3)..Len(u) :
        /\ lower(SubSeq(u, i, i + 1)) = <<"o","n">>
        /\ AllIn(SubSeq(u, i + 2, j - 1), WordChars)
        /\ u[j] = "="

ClaimedDangerous(u) ==
    \/ Contains(lower(u), <<"<","s","c","r","i","p","t",">">>)
    \/ Contains(lower(u), <<"j","a","v","a","s","c","r","i","p","t",":">>)
    \/ HasEventHandler(u)

\* C15: both validate_url implementations reject every string that contains
\* <script>, javascript: or an inline event-handler attribute, whatever its
\* scheme.
C15_DangerousUrlRejected ==
    (resp.op = "validate_url" /\ ClaimedDangerous(resp.arg)) =>
        /\ ~resp.body.schemas.ok
        /\ ~resp.body.validators.ok

\* Five groups of 8, 4, 4, 4 and 12 hexadecimal digits joined by hyphens
IsUuid(s) ==
    LET groups == Split(s, "-") IN
    /\ Len(groups) = 5
    /\ <<Len(groups[1]), Len(groups[2]), Len(groups[3]), Len(groups[4]),
         Len(groups[5])>> = <<8, 4, 4, 4, 12>>
    /\ \A i \in 1..5 : AllIn(groups[i], HexChars)

\* C17: both validate_uuid implementations accept exactly the 8-4-4-4-12
\* hexadecimal strings, return them lower-cased, reject every other string,
\* and return their own output unchanged.
C17_UuidExact ==
    resp.op = "validate_uuid" =>
        /\ resp.body.schemas.ok <=> IsUuid(resp.arg)
        /\ resp.body.validators.ok <=> IsUuid(resp.arg)
        /\ resp.body.schemas.ok =>
              /\ resp.body.schemas.v = lower(resp.arg)
              /\ validate_uuid(resp.body.schemas.v) = resp.body.schemas
        /\ resp.body.validators.ok =>
              /\ resp.body.validators.v = lower(resp.arg)
              /\ validators_validate_uuid(resp.body.validators.v)
                    = resp.body.validators

\* The character references html.escape writes
Entities == { EscapeChar(c) : c \in {"&", "<", ">", "\"", "'"} }

\* Escaped text without markup characters: no < > " ', and every & opens a
\* character reference
AlreadyEscaped(t) ==
    \A i \in 1..Len(t) :
        /\ t[i] \notin {"<", ">", "\"", "'"}
        /\ t[i] = "&" =>
              \E e \in Entities :
                  i + Len(e) - 1 <= Len(t) /\ SubSeq(t, i, i + Len(e) - 1) = e

\* Text that html.escape and the NUL removal leave as it is
PlainText(t) == \A i \in 1..Len(t) : t[i] \notin {"&", "<", ">", "\"", "'", NUL}

\* C18, as stated: on already-escaped text with no markup characters, within
\* max_length, applying sanitize_text twice gives what applying it once gives.
C18_IdempotentOnEscaped ==
    ( /\ resp.op = "sanitize_text"
      /\ AlreadyEscaped(resp.arg.value)
      /\ Len(resp.arg.value) <= resp.arg.max_length )
    => resp.body.twice = resp.body.once

\* C18, amended: on text with none of the characters & < > " ' and no NUL,
\* within max_length, applying sanitize_text twice gives what applying it
\* once gives, the trimmed text.
C18_IdempotentOnPlain ==
    ( /\ resp.op = "sanitize_text"
      /\ PlainText(resp.arg.value)
      /\ Len(resp.arg.value) <= resp.arg.max_length )
    => /\ resp.body.twice = resp.body.once
       /\ resp.body.once = strip(resp.arg.value)

\* A plain text that the first application trims
C18_Witness ==
    /\ resp.op = "sanitize_text"
    /\ PlainText(resp.arg.value)
    /\ Len(resp.arg.value) <= resp.arg.max_length
    /\ resp.body.once # resp.arg.value
    /\ resp.body.twice = resp.body.once

\* C19: sanitize_tags returns at most max_tags distinct tags, each obtained
\* from one of the first max_tags inputs, lower-case, made of characters in
\* [a-z0-9-_ whitespace], of length at least 2 and at most max_tag_length.
C19_TagsWellFormed ==
    resp.op = "sanitize_tags" =>
        LET a == resp.arg
            out == resp.body.tags
        IN /\ Cardinality(out) <= a.max_tags
           /\ \A t \in out :
                 /\ \E i \in 1..Min(Len(a.tags), a.max_tags) :
                       t = CleanTag(a.tags[i], a.max_tag_length)
                 /\ t = lower(t)
                 /\ AllIn(t, TagChars)
                 /\ Len(t) >= 2
                 /\ Len(t) <= a.max_tag_length

\* The formats and the states a resource request may have
PreferredFormats == {"pdf", "video", "notes", "past_paper", "any"}
RequestStates == {"pending", "in_progress", "fulfilled", "closed"}

\* Every stored request has its enumerated fields in the closed sets
EnumsClosed(tbl) ==
    \A i \in 1..Len(tbl) :
        /\ tbl[i].preferred_format \in PreferredFormats
        /\ tbl[i].status \in RequestStates

\* The call named a preferred_format or a status outside the closed sets
OutsideEnum(r) ==
    /\ r.op \in {"create_request", "update_request", "update_request_status"}
    /\ \/ r.arg.preferred_format # None
          /\ r.arg.preferred_format[1] \notin PreferredFormats
       \/ r.arg.status # None /\ r.arg.status[1] \notin RequestStates

\* C20: after any sequence of create_request and update_request operations
\* every stored resource request has preferred_format in {pdf, video, notes,
\* past_paper, any} and status in {pending, in_progress, fulfilled, closed};
\* a call with a value outside the set is rejected and leaves the store
\* unchanged.
C20_ClosedEnums ==
    [][ /\ EnumsClosed(tables'.resource_requests)
        /\ OutsideEnum(resp') =>
              /\ resp'.status # 200
              /\ tables' = tables ]_vars

\* C22: create_access_token sets exp to the issue time plus the ttl the caller
\* passes, a zero ttl included, and to the issue time plus 24 hours only when
\* no ttl is passed; register and login report expires_in = 86400 seconds.
C22_ExpFromTtl ==
    /\ resp.op = "create_access_token" =>
          LET payload == resp.body.token.payload
              expires_delta == resp.arg.expires_delta
          IN /\ payload["iat"] = now
             /\ expires_delta # None =>
                   payload["exp"] = payload["iat"] + expires_delta[1]
             /\ expires_delta = None =>
                   payload["exp"] = payload["iat"] + 24 * 60
    /\ (resp.op \in {"register", "login"} /\ resp.status = 200) =>
          resp.body.expires_in = 86400

\* C30: the token returned by a successful register or login, presented
\* before its expiry, is accepted by get_current_user and resolves to the
\* user that registered or logged in: the row with the same id and e-mail.
C30_TokenResolvesToOwner ==
    /\ (resp.op \in {"register", "login"} /\ resp.status = 200) =>
          LET tok == resp.body.access_token IN
          /\ tok \in issued
          /\ tok.payload["sub"] = resp.body.user.id
          /\ tok.payload["email"] = resp.body.user.email
    /\ \A tok \in issued :
          ~Expired(tok, now) =>
              LET r == get_current_user(tok, now, users) IN
              /\ r.ok
              /\ r.user.id = tok.payload["sub"]
              /\ r.user.email = tok.payload["email"]

\* The token of the second user of the table, presented at its expiry instant
\* and answered with that user's row
C30_Witness ==
    /\ resp.op = "me"
    /\ resp.status = 200
    /\ resp.cred[1] \in issued
    /\ resp.cred[1].payload["iat"] < now
    /\ resp.cred[1].payload["sub"] = 2
    /\ resp.body.data.id = 2
    /\ resp.body.data.email = resp.cred[1].payload["email"]

\* C29: from a store with no admin user, no sequence of requests of an
\* anonymous caller yields a token with which require_role(['admin']) passes:
\* no row with a password has role admin, a row created through
\* POST /api/users has no password and every login to it is refused, and no
\* token that can be presented passes the admin check.
C29_NoAdminEscalation ==
    /\ \A i \in 1..Len(users) :
          /\ users[i].password_hash # NullHash => users[i].role # "admin"
          /\ users[i].role = "admin" =>
                \A p \in Passwords \cup LongPasswords :
                    ~verify_password(p, users[i].password_hash)
    /\ \A tok \in Presentable :
          ~require_role({"admin"}, tok, now, users).ok
    /\ (resp.op = "login" /\ resp.status = 200) => resp.body.user.role # "admin"

\* A login to an admin row created through POST /api/users, refused, while a
\* token of a registered user is in hand
C29_Witness ==
    /\ resp.op = "login"
    /\ resp.status = 401
    /\ \E i \in 1..Len(users) :
          users[i].email = resp.arg.email /\ users[i].role = "admin"
    /\ issued # {}

\* C23: for every value and every max_length the string sanitize_string
\* returns has at most max_length characters, so a stored resource title has
\* at most the 200 characters declared for it.
C23_LengthBounded ==
    resp.op = "sanitize_string" =>
        /\ Len(resp.body.schemas) <= resp.arg.max_length
        /\ Len(resp.body.validators) <= resp.arg.max_length
        /\ resp.body.title.ok => Len(resp.body.title.v) <= 200

\* C25: delete_post is a soft delete.  A successful delete_post removes no
\* row and sets is_active of the row with the given id to false, leaving the
\* rest of the table as it was; a deleted post stays inactive until an
\* update_post for its id sets is_active to true; no inactive post is in a
\* get_all_posts result; delete_post of an unknown id is answered 404 and
\* changes nothing.
C25_SoftDelete ==
    [][ LET old == tables.posts
            new == tables'.posts
        IN /\ \A i \in 1..Len(old) : i <= Len(new) /\ new[i].id = old[i].id
           /\ resp'.op = "delete_post" =>
                 IF SelectById(old, resp'.arg.id) = <<>>
                 THEN resp'.status = 404 /\ tables' = tables
                 ELSE /\ resp'.status = 200
                      /\ new = [i \in 1..Len(old) |->
                                   IF old[i].id = resp'.arg.id
                                   THEN [old[i] EXCEPT !.is_active = FALSE]
                                   ELSE old[i]]
           /\ \A i \in 1..Len(old) :
                 (~old[i].is_active /\ new[i].is_active) =>
                     /\ resp'.op = "update_post"
                     /\ resp'.arg.id = old[i].id
                     /\ resp'.arg.is_active = Some(TRUE)
           /\ resp'.op = "get_all_posts" =>
                 \A j \in 1..Len(resp'.body.data) :
                     /\ resp'.body.data[j].is_active
                     /\ \E i \in 1..Len(new) : new[i] = resp'.body.data[j]
      ]_vars

\* A listing made while a deleted post is in the table: it shows the other
\* post only
C25_Witness ==
    /\ resp.op = "get_all_posts"
    /\ resp.arg.post_type = None
    /\ resp.arg.limit = 50
    /\ Len(tables.posts) = 2
    /\ ~tables.posts[1].is_active
    /\ Len(resp.body.data) = 1
    /\ resp.body.data[1].id = 2

\* C24: every stored free-text field that must be present has at least the
\* minimum length declared for it: a tutor-request subject 2 characters, a
\* resource-request topic 3, a post title 5; a value of white space only is
\* never stored.
C24_MinLengthStored ==
    /\ \A i \in 1..Len(tables.tutor_requests) :
          Len(tables.tutor_requests[i].subject) >= 2
    /\ \A i \in 1..Len(tables.resource_requests) :
          Len(tables.resource_requests[i].topic) >= 3
    /\ \A i \in 1..Len(tables.posts) :
          Len(tables.posts[i].title) >= 5

\* The operations that insert a row, by the name of their response
CreateOps == {"register", "create-user", "create_category", "create_resource",
              "create_request", "create_tutor", "create_tutor_request",
              "create_post"}

\* The table a create operation inserts into
TableOf(op) ==
    CASE op = "create_category" -> "categories"
      [] op = "create_resource" -> "resources"
      [] op = "create_request" -> "resource_requests"
      [] op = "create_tutor" -> "tutors"
      [] op = "create_tutor_request" -> "tutor_requests"
      [] op = "create_post" -> "posts"

\* new is old with one row more
Appended(old, new) ==
    Len(new) = Len(old) + 1 /\ SubSeq(new, 1, Len(old)) = old

\* A field of the body of a create request that its validator refuses
FieldFails(r) ==
    CASE r.op = "create_category" ->
            \/ ~CategoryBase_validate_name(r.arg.name).ok
            \/ ~CategoryBase_validate_icon(r.arg.icon).ok
      [] r.op = "create_resource" ->
            \/ ~ResourceBase_validate_title(r.arg.title).ok
            \/ ~ResourceBase_validate_file_type(r.arg.file_type).ok
      [] r.op = "create_request" ->
            ~ResourceRequestBase_validate_format(r.arg.preferred_format[1]).ok
      [] r.op = "create_tutor" ->
            \/ ~TutorCreate_validate_user_id(r.arg.user_id).ok
            \/ ~TutorBase_validate_hourly_rate(r.arg.hourly_rate).ok
      [] r.op = "create_tutor_request" ->
            ~TutorRequestBase_validate_subject(r.arg.subject).ok
      [] r.op = "create_post" ->
            \/ ~PostBase_validate_title(r.arg.title).ok
            \/ ~PostBase_validate_post_type(r.arg.post_type).ok
      [] OTHER -> FALSE

PatchOps == {"update_post", "update_request", "update_tutor"}

PatchTable(op) ==
    CASE op = "update_post" -> "posts"
      [] op = "update_request" -> "resource_requests"
      [] op = "update_tutor" -> "tutors"

PatchFields(op) ==
    CASE op = "update_post" ->
            {"title", "description", "category_id", "attachment_urls",
             "is_active"}
      [] op = "update_request" -> {"topic", "description", "preferred_format"}
      [] op = "update_tutor" ->
            {"subjects", "bio", "hourly_rate", "availability", "contact_email",
             "booking_link", "is_available"}

\* The fields the body of a PATCH request supplies with a non-null value
SuppliedFields(r) == { f \in PatchFields(r.op) : r.arg[f] # None }

\* A category_id of white space only is made None by its validator, which the
\* handler takes for a field that is not in the body
EffectiveFields(r) ==
    { f \in SuppliedFields(r) :
        ~(/\ r.op = "update_post"
          /\ f = "category_id"
          /\ PostBase_validate_category_id(r.arg[f]).v = None) }

\* The row with each of the given fields set to what its validator makes of
\* the supplied value, and every other field as it was
PatchedRow(r, row, fields) ==
    LET a == r.arg IN
    CASE r.op = "update_post" ->
            [row EXCEPT
               !.title = IF "title" \in fields
                         THEN PostUpdate_validate_title(a.title).v[1] ELSE @,
               !.description =
                   IF "description" \in fields
                   THEN PostUpdate_validate_description(a.description).v[1]
                   ELSE @,
               !.category_id =
                   IF "category_id" \in fields
                   THEN PostBase_validate_category_id(a.category_id).v ELSE @,
               !.attachment_urls =
                   IF "attachment_urls" \in fields
                   THEN PostUpdate_validate_attachment_urls(a.attachment_urls).v[1]
                   ELSE @,
               !.is_active = IF "is_active" \in fields THEN a.is_active[1] ELSE @]
      [] r.op = "update_request" ->
            [row EXCEPT
               !.topic = IF "topic" \in fields
                         THEN ResourceRequestUpdate_validate_topic(a.topic).v[1]
                         ELSE @,
               !.description =
                   IF "description" \in fields
                   THEN ResourceRequestUpdate_validate_description(a.description).v[1]
                   ELSE @,
               !.preferred_format =
                   IF "preferred_format" \in fields THEN a.preferred_format[1] ELSE @]
      [] r.op = "update_tutor" ->
            [row EXCEPT
               !.subjects = IF "subjects" \in fields
                            THEN TutorUpdate_validate_subjects(a.subjects).v[1]
                            ELSE @,
               !.bio = IF "bio" \in fields THEN TutorBase_validate_bio(a.bio).v ELSE @,
               !.hourly_rate = IF "hourly_rate" \in fields THEN a.hourly_rate ELSE @,
               !.availability =
                   IF "availability" \in fields THEN a.availability[1] ELSE @,
               !.contact_email =
                   IF "contact_email" \in fields
                   THEN TutorBase_validate_contact_email(a.contact_email).v ELSE @,
               !.booking_link =
                   IF "booking_link" \in fields
                   THEN TutorBase_validate_booking_link(a.booking_link).v ELSE @,
               !.is_available =
                   IF "is_available" \in fields THEN a.is_available[1] ELSE @]

\* A PATCH operation on a body that passes validation, where Fields(r) are
\* the fields taken as supplied: nothing but the row with the given id
\* changes, and on it the supplied fields only; 400 without a supplied field,
\* 404 for an unknown id
PatchFrame(Fields(_)) ==
    resp'.op \in PatchOps /\ resp'.status # 422 =>
        LET r == resp'
            old == tables[PatchTable(r.op)]
            new == tables'[PatchTable(r.op)]
        IN /\ users' = users
           /\ \A k \in DOMAIN tables \ {PatchTable(r.op)} :
                 tables'[k] = tables[k]
           /\ IF Fields(r) = {}
              THEN r.status = 400 /\ new = old
              ELSE IF SelectById(old, r.arg.id) = <<>>
              THEN r.status = 404 /\ new = old
              ELSE /\ r.status = 200
                   /\ new = [i \in 1..Len(old) |->
                                IF old[i].id = r.arg.id
                                THEN PatchedRow(r, old[i], Fields(r))
                                ELSE old[i]]

\* C26 as stated: update_post, update_request and update_tutor, on a body
\* that passes validation, change on the row with the given id exactly the
\* fields the body supplies with a non-null value and nothing else in the
\* store; a body with no non-null field gets 400 and an unknown id gets 404,
\* both with the store unchanged.
C26_PatchFrame == [][PatchFrame(SuppliedFields)]_vars

\* C26: the same, where a field counts as supplied when its value after
\* validation is non-null: a category_id of white space only in the body of
\* update_post counts as not supplied.
C26_PatchFrameValidated == [][PatchFrame(EffectiveFields)]_vars

\* update_post with a new title and an empty category_id changed the title
\* and kept the category of the row
C26_Witness ==
    /\ resp.op = "update_post"
    /\ resp.status = 200
    /\ resp.arg.title = Some(<<"W","o","r","l","d">>)
    /\ resp.arg.category_id = Some(<<>>)
    /\ resp.body.data.title = <<"W","o","r","l","d">>
    /\ resp.body.data.category_id = Some(UuidOf("a"))
    /\ SelectById(tables.posts, resp.arg.id) = <<resp.body.data>>

\* The invocations of op on the row id that have answered with success
Done(op, id) ==
    { c \in calls : c.op = op /\ c.id = id /\ c.pc = "done" /\ c.status = 200 }

\* C28: once every started call has answered, the download_count of each
\* resource is the number of track_download calls made on it and its
\* view_count the number of successful get_resource calls: no increment is
\* lost, however the calls were interleaved.
C28_NoLostIncrement ==
    (\A c \in calls : c.pc = "done") =>
        \A i \in 1..Len(tables.resources) :
            LET r == tables.resources[i] IN
            /\ r.download_count = Cardinality(Done("track_download", r.id))
            /\ r.view_count = Cardinality(Done("get_resource", r.id))

\* The register calls for the e-mail address e that were answered with a
\* token
Registered(e) ==
    { c \in calls : c.op = "register" /\ c.id = e /\ c.pc = "done"
                      /\ c.status = 200 }

\* C27: however concurrent register and create_user calls are interleaved,
\* no two rows of the users table have the same e-mail address, and of the
\* register calls for one address at most one is answered with a token.
C27_UniqueEmail ==
    /\ \A i, j \in 1..Len(users) : users[i].email = users[j].email => i = j
    /\ \A c \in calls : Cardinality(Registered(c.id)) <= 1
    /\ \A t1, t2 \in issued : t1.payload.email = t2.payload.email => t1 = t2

\* Two register calls for one address both found no row; one inserted and
\* got a token, the insert of the other was refused
C27_Witness ==
    \E c1, c2 \in calls :
        /\ c1.op = "register" /\ c2.op = "register"
        /\ c1.id = c2.id
        /\ c1.pc = "done" /\ c1.status = 200
        /\ c2.pc = "done" /\ c2.status = 500
        /\ Len(SelectByEmail(users, c1.id)) = 1
        /\ Cardinality(issued) = 1

====
